---- MODULE Spec2Model ----
(***************************************************************************)
(* A model of quicsock: QuicConnection (src/src/connection.rs), the        *)
(* per-connection stream table with chunked send/receive, and QuicSocket   *)
(* (src/src/socket.rs), the facade that owns an endpoint, the accept loop  *)
(* and the address -> connection table.                                    *)
(*                                                                         *)
(* Two QuicConnection objects, one on each side of one QUIC connection,    *)
(* run the same code; quinn is modelled by its contract: ordered reliable  *)
(* byte streams with a receive window, open_bi/accept_bi, write_chunk,     *)
(* flush, finish, stopped, read_chunk and close.                           *)
(***************************************************************************)
EXTENDS Integers, Sequences, FiniteSets, TLC

(* ------------------------------ bounds -------------------------------- *)

\* Tasks that call into each QuicConnection concurrently.
NTasks == 2
\* The sections a file of the model holds at most.
MaxSections == 2
\* Tasks that call into the peer's QuicConnection.
PeerTasks == 2
\* Bidirectional transport streams opened on the connection, both sides together.
MaxStreams == 2
\* Calls each task makes.
MaxCalls == 2
\* The transport's per-stream receive window: bytes written and not yet read by
\* the peer's application (quinn's stream_receive_window, scaled to the payloads).
StreamWindow == 1024
\* The length of a short read: read_chunk may return fewer bytes than asked for.
ShortRead == 1000
\* Tasks that call into the QuicSocket concurrently.
NFacadeTasks == 2
\* Facade calls each task makes.
SocketCalls == 2
\* Handshake attempts that reach the endpoint.
SocketAttempts == 2
\* Attempts the endpoint buffers until the accept loop takes them.
MaxPending == 2
\* Where the queue is filled: the attempts that reach the endpoint (more than the
\* queue holds), and the accepts the consumer makes.
QueueAttempts == 103
QueueCalls == 2

(* ------------------------- program constants -------------------------- *)

\* connection.rs: let chunk_size = 1024; (send and receive)
chunk_size == 1024

Sides == {"A", "B"}
\* The side whose peer is seen through the transport only.
PeerSide == "B"
Peer(s) == IF s = "A" THEN "B" ELSE "A"
\* The tasks of each side: the session under study on A, its peer on B.
TasksOf(s) == IF s = "A" THEN 1..NTasks ELSE 1..PeerTasks
Procs == {p \in Sides \X (1..(NTasks + PeerTasks)) : p[2] \in TasksOf(p[1])}
SideOf(p) == p[1]

NoOwner == <<>>

Min(a, b) == IF a < b THEN a ELSE b

(* ------------------------------ payloads ------------------------------ *)

\* The bytes of a test payload of length n: position-dependent values, so that a
\* lost, repeated or reordered chunk changes the sequence (251 is coprime to 1024).
Bytes(n, seed) == [i \in 1..n |-> (seed + i) % 251]

\* The value before the first byte of a test payload.
Seed == 3

\* Lengths around the chunk size: 0, below, equal, above, not a multiple.
PayloadLens == {0, 1, chunk_size, chunk_size + 1, 2 * chunk_size + 1}
\* The payloads the concurrent specification sends: no chunk, two chunks.
SmallLens == {0, chunk_size + 1}

VARIABLES
    send_streams,       \* [Sides -> [handles -> transport stream]]  HashMap<u64, SendStream>
    recv_streams,       \* [Sides -> [handles -> transport stream]]  HashMap<u64, RecvStream>
    stream_id_counter,  \* [Sides -> Nat]
    lock,               \* [Sides -> [send, recv, ctr -> owner]]     the three tokio Mutexes
    task,               \* [Procs -> the locals of the call the task is in]
    ret,                \* [Procs -> the value its last call returned]
    conn,               \* [Sides -> "open" | "closed"]    quinn::Connection
    streams,            \* transport streams of the connection, by number
    handles,            \* [Sides -> the handles returned so far, in return order]
    ncalls              \* [Procs -> the number of calls the task has made]

svars == <<send_streams, recv_streams, stream_id_counter, lock, task, ret, conn,
           streams, handles, ncalls>>

\* QuicSocket (socket.rs) and what it owns.
VARIABLES
    kind,               \* "server" | "client": which constructor built the facade
    endpoint,           \* "open" | "closed"                          quinn::Endpoint
    connections,        \* [addresses -> session]   HashMap<SocketAddr, Arc<QuicConnection>>
    connections_lock,   \* the owner of the tokio Mutex around connections
    sessions,           \* the QuicConnections created so far: [addr, state, held]
    pending,            \* handshake attempts the endpoint holds for accept()
    arrived,            \* the number of attempts that have reached the endpoint
    accept_loop,        \* [pc, item]: the task spawned by new_server
    queue,              \* the buffer of mpsc::channel(100)
    rx,                 \* "open" | "closed" | "none": the mpsc::Receiver the caller holds
    ftask,              \* [FTasks -> the locals of the facade call the task is in]
    fret,               \* [FTasks -> the value its last facade call returned]
    fcalls,             \* [FTasks -> the number of facade calls the task has made]
    facade              \* "alive" | "dropped" | "none": the QuicSocket value itself

fvars == <<kind, endpoint, connections, connections_lock, sessions, pending, arrived,
           accept_loop, queue, rx, ftask, fret, fcalls, facade>>

\* The construction of an endpoint (endpoint.rs, tls/) and the handshake of a client.
VARIABLES
    fs,                 \* [Files -> content]: the files on disk
    built,              \* the last construction: its arguments, what it loaded, its result
    reads,              \* the files the construction has read, in order
    hs                  \* a handshake of the insecure client, as its verifier sees it

tvars == <<fs, built, reads, hs>>

vars == <<svars, fvars, tvars>>

(* ------------------------------ transport ----------------------------- *)

\* A bidirectional stream as quinn holds it. init is the side that opened it; wire,
\* rd and fin are per sending side: the bytes written and not yet read by the
\* receiving application, the count of bytes it has read, and whether the sender
\* has finished the half.
NewStream(s) ==
    [init |-> s, announced |-> FALSE, accepted |-> FALSE,
     wire |-> [d \in Sides |-> <<>>], rd |-> [d \in Sides |-> 0],
     fin |-> [d \in Sides |-> FALSE]]

StreamIds == 1..Len(streams)

\* SendStream::write_chunk: fails on a lost or closed connection and on a half that
\* is already finished; waits while the peer's receive window has no room.
WriteOutcome(s, t, n) ==
    IF conn[s] # "open" \/ streams[t].fin[s] THEN "err"
    ELSE IF Len(streams[t].wire[s]) + n > StreamWindow THEN "wait"
    ELSE "ok"

\* AsyncWriteExt::flush on a SendStream.
FlushOutcome(s, t) == IF conn[s] # "open" THEN "err" ELSE "ok"

\* SendStream::finish: Err(ClosedStream) when the half is already finished.
FinishOutcome(s, t) == IF streams[t].fin[s] THEN "err" ELSE "ok"

\* SendStream::stopped: completes when the peer acknowledges the finished half
\* (which a live peer does at a time of its choosing), or with an error when the
\* connection is gone.
StoppedOutcome(s, t) ==
    IF conn[s] # "open" THEN "err"
    ELSE IF conn[Peer(s)] = "open" THEN "ok"
    ELSE "wait"

\* RecvStream::read_chunk(max_length, ordered) on the half the peer sends on.
ReadOutcome(s, t) ==
    IF conn[s] # "open" THEN "err"
    ELSE IF streams[t].wire[Peer(s)] # <<>> THEN "some"
    ELSE IF streams[t].fin[Peer(s)] THEN "none"
    ELSE "wait"

\* The lengths read_chunk may return when avail bytes are buffered.
ReadLens(avail, max_length) ==
    {Min(avail, max_length), Min(Min(avail, max_length), ShortRead)}

\* The streams the peer opened and used, which accept_bi has not yet handed out.
Acceptable(s) ==
    {t \in StreamIds : /\ streams[t].init = Peer(s)
                       /\ streams[t].announced
                       /\ ~streams[t].accepted}

LowestOf(S) == CHOOSE t \in S : \A u \in S : t <= u

(* ------------------------------- tasks -------------------------------- *)

IdleTask ==
    [pc |-> "idle", h |-> 0, data |-> <<>>, offset |-> 0, buffer |-> <<>>,
     strm |-> 0, start |-> 0]

\* What a call returned: st is "ok" or "err"; h is the handle (the argument, or the
\* one open/accept returned); val the bytes of a receive; err the failing step.
\* For the properties: data is the payload of a send, strm the transport stream the
\* call acted on (0: none), start the read offset of the stream at the lookup.
NoRet == [op |-> "none", st |-> "ok", h |-> 0, val |-> <<>>, err |-> "", data |-> <<>>,
          strm |-> 0, start |-> 0]
RetOk(op, h, val, data, strm, start) ==
    [op |-> op, st |-> "ok", h |-> h, val |-> val, err |-> "", data |-> data,
     strm |-> strm, start |-> start]
RetErr(op, h, err, data, strm, start) ==
    [op |-> op, st |-> "err", h |-> h, val |-> <<>>, err |-> err, data |-> data,
     strm |-> strm, start |-> start]

Return(p, r) ==
    /\ task' = [task EXCEPT ![p] = IdleTask]
    /\ ret' = [ret EXCEPT ![p] = r]

\* A task that is in no call starts one (each task makes at most MaxCalls calls).
Enter(p) ==
    /\ task[p].pc = "idle"
    /\ ncalls[p] < MaxCalls
    /\ ncalls' = [ncalls EXCEPT ![p] = @ + 1]
    /\ UNCHANGED <<fvars, tvars>>

Free(s, l) == lock[s][l] = NoOwner
Acquire(p, l) == lock' = [lock EXCEPT ![SideOf(p)][l] = p]
Release(p, l) == lock' = [lock EXCEPT ![SideOf(p)][l] = NoOwner]

ConnectionInit ==
    /\ send_streams = [s \in Sides |-> <<>>]
    /\ recv_streams = [s \in Sides |-> <<>>]
    /\ stream_id_counter = [s \in Sides |-> 0]
    /\ lock = [s \in Sides |-> [send |-> NoOwner, recv |-> NoOwner, ctr |-> NoOwner]]
    /\ task = [p \in Procs |-> IdleTask]
    /\ ret = [p \in Procs |-> NoRet]
    /\ conn = [s \in Sides |-> "open"]
    /\ streams = <<>>
    /\ handles = [s \in Sides |-> <<>>]
    /\ ncalls = [p \in Procs |-> 0]

(* ---------------- open_bi_stream / accept_bi_stream ------------------- *)

\* connection.rs:34  self.connection.open_bi().await?
OpenBi(p) ==
    LET s == SideOf(p) IN
    /\ Enter(p)
    /\ IF conn[s] # "open"
       THEN /\ Return(p, RetErr("open", 0, "open_bi", <<>>, 0, 0))
            /\ UNCHANGED streams
       ELSE /\ Len(streams) < MaxStreams
            /\ streams' = Append(streams, NewStream(s))
            /\ task' = [task EXCEPT ![p] = [IdleTask EXCEPT !.pc = "open_send_lock",
                                                            !.strm = Len(streams) + 1]]
            /\ ret' = [ret EXCEPT ![p] = NoRet]
    /\ UNCHANGED <<send_streams, recv_streams, stream_id_counter, lock, conn, handles>>

\* connection.rs:47  the call of accept_bi_stream, up to its first await
AcceptCall(p) ==
    /\ Enter(p)
    /\ task' = [task EXCEPT ![p] = [IdleTask EXCEPT !.pc = "accept_bi"]]
    /\ ret' = [ret EXCEPT ![p] = NoRet]
    /\ UNCHANGED <<send_streams, recv_streams, stream_id_counter, lock, conn, streams,
                   handles>>

\* connection.rs:47  self.connection.accept_bi().await?
AcceptBi(p) ==
    LET s == SideOf(p) IN
    /\ task[p].pc = "accept_bi"
    /\ IF conn[s] # "open"
       THEN /\ Return(p, RetErr("accept", 0, "accept_bi", <<>>, 0, 0))
            /\ UNCHANGED streams
       ELSE /\ Acceptable(s) # {}
            /\ LET t == LowestOf(Acceptable(s)) IN
               /\ streams' = [streams EXCEPT ![t].accepted = TRUE]
               /\ task' = [task EXCEPT ![p].pc = "accept_send_lock", ![p].strm = t]
            /\ UNCHANGED ret
    /\ UNCHANGED <<send_streams, recv_streams, stream_id_counter, lock, conn, handles>>
    /\ UNCHANGED <<ncalls, fvars, tvars>>

\* self.send_streams.lock().await
LockSendStreams(p, from, to) ==
    /\ task[p].pc = from
    /\ Free(SideOf(p), "send")
    /\ Acquire(p, "send")
    /\ task' = [task EXCEPT ![p].pc = to]
    /\ UNCHANGED <<send_streams, recv_streams, stream_id_counter, ret, conn, streams,
                   handles>>
    /\ UNCHANGED <<ncalls, fvars, tvars>>

\* self.recv_streams.lock().await
LockRecvStreams(p, from, to) ==
    /\ task[p].pc = from
    /\ Free(SideOf(p), "recv")
    /\ Acquire(p, "recv")
    /\ task' = [task EXCEPT ![p].pc = to]
    /\ UNCHANGED <<send_streams, recv_streams, stream_id_counter, ret, conn, streams,
                   handles>>
    /\ UNCHANGED <<ncalls, fvars, tvars>>

\* *stream_id_counter += 1 (connection.rs:39, 52)
CounterAfterStale(c) == c
CounterAfter(c) == c + 1

\* recv_streams.insert(stream_id, recv_stream) (connection.rs:41, 54)
RecvInsertSkipped(m, k, v) == m
RecvInsert(m, k, v) == [x \in DOMAIN m \cup {k} |-> IF x = k THEN v ELSE m[x]]

\* self.stream_id_counter.lock().await, then the rest of the function, which has no
\* await: read and increment the counter, insert both halves, drop the three guards.
InsertStreams(p, from, op) ==
    LET s == SideOf(p)
        stream_id == stream_id_counter[s]
    IN
    /\ task[p].pc = from
    /\ Free(s, "ctr")
    /\ stream_id_counter' = [stream_id_counter EXCEPT ![s] = CounterAfter(@)]
    /\ send_streams' = [send_streams EXCEPT ![s] =
                           [k \in DOMAIN @ \cup {stream_id} |->
                               IF k = stream_id THEN task[p].strm ELSE @[k]]]
    /\ recv_streams' = [recv_streams EXCEPT ![s] = RecvInsert(@, stream_id, task[p].strm)]
    /\ lock' = [lock EXCEPT ![s] = [send |-> NoOwner, recv |-> NoOwner, ctr |-> NoOwner]]
    /\ handles' = [handles EXCEPT ![s] = Append(@, stream_id)]
    /\ Return(p, RetOk(op, stream_id, <<>>, <<>>, task[p].strm, 0))
    /\ UNCHANGED <<conn, streams>>
    /\ UNCHANGED <<ncalls, fvars, tvars>>

OpenLockSend(p) == LockSendStreams(p, "open_send_lock", "open_recv_lock")
OpenLockRecv(p) == LockRecvStreams(p, "open_recv_lock", "open_insert")
OpenInsert(p) == InsertStreams(p, "open_insert", "open")

\* The order in which accept_bi_stream takes the locks of the two maps
\* (connection.rs:48-49): the send map first, as open_bi_stream does (35-36).
AcceptLockOrderReversed == <<"recv", "send">>
AcceptLockOrder == <<"send", "recv">>

AcceptLock(p, l, from, to) ==
    IF l = "send" THEN LockSendStreams(p, from, to) ELSE LockRecvStreams(p, from, to)

AcceptLockSend(p) == AcceptLock(p, AcceptLockOrder[1], "accept_send_lock", "accept_recv_lock")
AcceptLockRecv(p) == AcceptLock(p, AcceptLockOrder[2], "accept_recv_lock", "accept_insert")
AcceptInsert(p) == InsertStreams(p, "accept_insert", "accept")

(* -------------------------------- send -------------------------------- *)

\* connection.rs:59  the call of send, up to its first await
SendCall(p) ==
    /\ Enter(p)
    /\ task' = [task EXCEPT ![p] = [IdleTask EXCEPT !.pc = "send_lock"]]
    /\ ret' = [ret EXCEPT ![p] = NoRet]
    /\ UNCHANGED <<send_streams, recv_streams, stream_id_counter, lock, conn, streams,
                   handles>>

\* The head of the while loop: another chunk to write, or on to the flush.
SendLoopOnce(offset, len) == IF offset = 0 /\ len > 0 THEN "send_write" ELSE "send_flush"
SendLoop(offset, len) == IF offset < len THEN "send_write" ELSE "send_flush"

\* What send returns for a handle that is not in the map (connection.rs:76).
SendUnknownErr(h, data) == RetErr("send", h, "unknown", data, 0, 0)
SendUnknown(h, data) == RetOk("send", h, <<>>, data, 0, 0)

\* let mut send_streams = self.send_streams.lock().await: the guard lives to the end
\* of send (connection.rs:60).
SendGuardDropped(p) == UNCHANGED lock
SendGuard(p) == Acquire(p, "send")

\* connection.rs:60-61  send_streams.lock().await and the lookup of the handle.
\* The arguments stream_id and data of the call are read here for the first time.
SendLookup(p, h, data) ==
    LET s == SideOf(p) IN
    /\ task[p].pc = "send_lock"
    /\ Free(s, "send")
    /\ IF h \in DOMAIN send_streams[s]
       THEN /\ SendGuard(p)
            /\ task' = [task EXCEPT ![p].pc = SendLoop(0, Len(data)),
                                    ![p].h = h,
                                    ![p].data = data,
                                    ![p].offset = 0,
                                    ![p].strm = send_streams[s][h]]
            /\ UNCHANGED ret
       ELSE /\ Return(p, SendUnknown(h, data))
            /\ UNCHANGED lock
    /\ UNCHANGED <<send_streams, recv_streams, stream_id_counter, conn, streams, handles>>
    /\ UNCHANGED <<ncalls, fvars, tvars>>

\* The end of the chunk that starts at offset (connection.rs:66).
ChunkEnd(offset, len) == Min(offset + chunk_size, len)

\* A send that fails at a transport step: the error is returned by `?`, the guard
\* is dropped, nothing else runs.
SendFailKeepsGuard(p, err) ==
    /\ UNCHANGED lock
    /\ Return(p, RetErr("send", task[p].h, err, task[p].data, task[p].strm, 0))
    /\ UNCHANGED streams
SendFail(p, err) ==
    /\ Release(p, "send")
    /\ Return(p, RetErr("send", task[p].h, err, task[p].data, task[p].strm, 0))
    /\ UNCHANGED streams

\* connection.rs:65-69  one turn of the loop: write_chunk(data[offset..end]).await?
SendWrite(p) ==
    LET s == SideOf(p)
        t == task[p].strm
        data == task[p].data
        end == ChunkEnd(task[p].offset, Len(data))
        chunk == SubSeq(data, task[p].offset + 1, end)
        out == WriteOutcome(s, t, Len(chunk))
    IN
    /\ task[p].pc = "send_write"
    /\ out # "wait"
    /\ IF out = "ok"
       THEN /\ streams' = [streams EXCEPT ![t].wire[s] = @ \o chunk,
                                          ![t].announced = TRUE]
            /\ task' = [task EXCEPT ![p].offset = end,
                                    ![p].pc = SendLoop(end, Len(data))]
            /\ UNCHANGED <<lock, ret>>
       ELSE SendFail(p, "write_chunk")
    /\ UNCHANGED <<send_streams, recv_streams, stream_id_counter, conn, handles>>
    /\ UNCHANGED <<ncalls, fvars, tvars>>

\* connection.rs:70  send_stream.flush().await?
SendFlush(p) ==
    /\ task[p].pc = "send_flush"
    /\ IF FlushOutcome(SideOf(p), task[p].strm) = "ok"
       THEN /\ task' = [task EXCEPT ![p].pc = "send_finish"]
            /\ UNCHANGED <<lock, ret, streams>>
       ELSE SendFail(p, "flush")
    /\ UNCHANGED <<send_streams, recv_streams, stream_id_counter, conn, handles>>
    /\ UNCHANGED <<ncalls, fvars, tvars>>

\* connection.rs:71  send_stream.finish()?
SendFinish(p) ==
    LET s == SideOf(p)
        t == task[p].strm
    IN
    /\ task[p].pc = "send_finish"
    /\ IF FinishOutcome(s, t) = "ok"
       THEN /\ streams' = [streams EXCEPT ![t].fin[s] = TRUE, ![t].announced = TRUE]
            /\ task' = [task EXCEPT ![p].pc = "send_stopped"]
            /\ UNCHANGED <<lock, ret>>
       ELSE SendFail(p, "finish")
    /\ UNCHANGED <<send_streams, recv_streams, stream_id_counter, conn, handles>>
    /\ UNCHANGED <<ncalls, fvars, tvars>>

\* What send returns after the wait, whatever the wait yielded (connection.rs:73-76).
SendResultChecked(out, h, data, t) ==
    IF out = "ok" THEN RetOk("send", h, <<>>, data, t, 0)
    ELSE RetErr("send", h, "stopped", data, t, 0)
SendResult(out, h, data, t) == RetOk("send", h, <<>>, data, t, 0)

\* connection.rs:73  _ = send_stream.stopped().await, then Ok(()) and the guard drops
SendStopped(p) ==
    LET out == StoppedOutcome(SideOf(p), task[p].strm) IN
    /\ task[p].pc = "send_stopped"
    /\ out # "wait"
    /\ Release(p, "send")
    /\ Return(p, SendResult(out, task[p].h, task[p].data, task[p].strm))
    /\ UNCHANGED <<send_streams, recv_streams, stream_id_counter, conn, streams, handles>>
    /\ UNCHANGED <<ncalls, fvars, tvars>>

(* ------------------------------ receive ------------------------------- *)

\* connection.rs:79  the call of receive, up to its first await
ReceiveCall(p) ==
    /\ Enter(p)
    /\ task' = [task EXCEPT ![p] = [IdleTask EXCEPT !.pc = "recv_lock"]]
    /\ ret' = [ret EXCEPT ![p] = NoRet]
    /\ UNCHANGED <<send_streams, recv_streams, stream_id_counter, lock, conn, streams,
                   handles>>

\* What receive returns for a handle that is not in the map (connection.rs:103).
ReceiveUnknown(h) == RetOk("receive", h, <<>>, <<>>, 0, 0)

\* let mut recv_streams = self.recv_streams.lock().await (connection.rs:80)
ReceiveGuardOnSendMap(p) == Acquire(p, "send")
ReceiveGuardDropped(p) == UNCHANGED lock
ReceiveGuard(p) == Acquire(p, "recv")

\* connection.rs:80-83  recv_streams.lock().await, the lookup, let mut buffer.
\* The argument stream_id of the call is read here for the first time.
ReceiveLookup(p, h) ==
    LET s == SideOf(p) IN
    /\ task[p].pc = "recv_lock"
    /\ Free(s, "recv")
    /\ IF h \in DOMAIN recv_streams[s]
       THEN /\ ReceiveGuard(p)
            /\ task' = [task EXCEPT ![p].pc = "recv_read",
                                    ![p].h = h,
                                    ![p].buffer = <<>>,
                                    ![p].strm = recv_streams[s][h],
                                    ![p].start = streams[recv_streams[s][h]].rd[Peer(s)]]
            /\ UNCHANGED ret
       ELSE /\ Return(p, ReceiveUnknown(h))
            /\ UNCHANGED lock
    /\ UNCHANGED <<send_streams, recv_streams, stream_id_counter, conn, streams, handles>>
    /\ UNCHANGED <<ncalls, fvars, tvars>>

\* What receive returns when read_chunk fails (connection.rs:94-97).
ReceivePartial(h, buffer, t, start) == RetOk("receive", h, buffer, <<>>, t, start)
ReceiveError(h, buffer, t, start) == RetErr("receive", h, "read_chunk", <<>>, t, start)

\* buffer.extend_from_slice(&chunk.bytes) (connection.rs:88)
ExtendFront(buffer, chunk) == chunk \o buffer
Extend(buffer, chunk) == buffer \o chunk

\* connection.rs:85-99  one turn of the loop: read_chunk(chunk_size, true).await
ReceiveRead(p) ==
    LET s == SideOf(p)
        t == task[p].strm
        d == Peer(s)
        out == ReadOutcome(s, t)
        avail == Len(streams[t].wire[d])
    IN
    /\ task[p].pc = "recv_read"
    /\ out # "wait"
    /\ CASE out = "some" ->
              \E n \in ReadLens(avail, chunk_size) :
                  /\ task' = [task EXCEPT ![p].buffer =
                                 Extend(@, SubSeq(streams[t].wire[d], 1, n))]
                  /\ streams' = [streams EXCEPT
                                    ![t].wire[d] = SubSeq(@, n + 1, avail),
                                    ![t].rd[d] = @ + n]
                  /\ UNCHANGED <<lock, ret>>
         [] out = "none" ->
              /\ Release(p, "recv")
              /\ Return(p, RetOk("receive", task[p].h, task[p].buffer, <<>>,
                                 task[p].strm, task[p].start))
              /\ UNCHANGED streams
         [] out = "err" ->
              /\ Release(p, "recv")
              /\ Return(p, ReceiveError(task[p].h, task[p].buffer, task[p].strm, task[p].start))
              /\ UNCHANGED streams
    /\ UNCHANGED <<send_streams, recv_streams, stream_id_counter, conn, handles>>
    /\ UNCHANGED <<ncalls, fvars, tvars>>

(* ------------------------------- close -------------------------------- *)

\* connection.rs:106-108  self.connection.close(0u32.into(), b"done")
Close(p) ==
    LET s == SideOf(p) IN
    /\ Enter(p)
    /\ conn' = [conn EXCEPT ![s] = IF @ = "open" THEN "closed" ELSE @]
    /\ Return(p, RetOk("close", 0, <<>>, <<>>, 0, 0))
    /\ UNCHANGED <<send_streams, recv_streams, stream_id_counter, lock, streams, handles>>

(* ---------------------------- environment ----------------------------- *)

\* The side learns that the connection is gone: the peer closed it, or it timed out.
ConnectionLost(s) ==
    /\ conn[s] = "open"
    /\ conn' = [conn EXCEPT ![s] = "closed"]
    /\ UNCHANGED <<send_streams, recv_streams, stream_id_counter, lock, task, ret,
                   streams, handles>>
    /\ UNCHANGED <<ncalls, fvars, tvars>>

(* ------------------------------ the peer ------------------------------ *)

\* The peer seen from the session under study, as the transport shows it: it opens
\* streams, sends a payload on its half of a stream in chunks (as send does), reads
\* what the session wrote.
PeerPayload == Bytes(chunk_size \div 2, Seed)

\* The peer opens a stream and sends its payload on it (its open_bi_stream and
\* send): the session sees the stream once it carries data, here bytes and end.
PeerOpen ==
    /\ conn[PeerSide] = "open"
    /\ Len(streams) < MaxStreams
    /\ streams' = Append(streams, [NewStream(PeerSide) EXCEPT
                                      !.announced = TRUE,
                                      !.wire[PeerSide] = PeerPayload,
                                      !.fin[PeerSide] = TRUE])
    /\ UNCHANGED <<send_streams, recv_streams, stream_id_counter, lock, task, ret, conn,
                   handles, ncalls, fvars, tvars>>

\* The peer answers on its half of a stream the session opened: bytes and end.
PeerSend(t) ==
    /\ t \in StreamIds
    /\ WriteOutcome(PeerSide, t, Len(PeerPayload)) = "ok"
    /\ streams' = [streams EXCEPT ![t].wire[PeerSide] = @ \o PeerPayload,
                                  ![t].fin[PeerSide] = TRUE]
    /\ UNCHANGED <<send_streams, recv_streams, stream_id_counter, lock, task, ret, conn,
                   handles, ncalls, fvars, tvars>>

\* The peer's application reads all that is buffered of stream t.
PeerRead(t) ==
    LET d == Peer(PeerSide)
        avail == Len(streams[t].wire[d])
    IN
    /\ t \in StreamIds
    /\ ReadOutcome(PeerSide, t) = "some"
    /\ streams' = [streams EXCEPT ![t].wire[d] = <<>>, ![t].rd[d] = @ + avail]
    /\ UNCHANGED <<send_streams, recv_streams, stream_id_counter, lock, task, ret, conn,
                   handles, ncalls, fvars, tvars>>

(* ============================ QuicSocket ============================== *)

\* The peer addresses of the model.
Addrs == {"a1", "a2"}
NoAddr == "none"

\* A handshake attempt (quinn::Incoming): its arrival number and the remote address.
NoAttempt == [id |-> 0, addr |-> NoAddr]
Attempt(n, a) == [id |-> n, addr |-> a]

FTasks == 1..NFacadeTasks
\* The table lock when no task holds it.
FNoOwner == 0
\* HashMap::new()
EmptyMap == [x \in {} |-> 0]

FIdle == [pc |-> "idle", addr |-> NoAddr, sess |-> 0, item |-> NoAttempt, rest |-> {}]

\* What a facade call returned: st is "ok" | "err" (connect), "some" | "none"
\* (accept), "done" (the closes); sess the session returned (0: none), addr the
\* address the call was about.
FNoRet == [op |-> "none", st |-> "none", sess |-> 0, addr |-> NoAddr]
FRet(op, st, sess, addr) == [op |-> op, st |-> st, sess |-> sess, addr |-> addr]

FReturn(p, r) ==
    /\ ftask' = [ftask EXCEPT ![p] = FIdle]
    /\ fret' = [fret EXCEPT ![p] = r]

\* A task that is in no facade call starts one (at most max calls each).
FEnter(p, max) ==
    /\ facade = "alive"
    /\ ftask[p].pc = "idle"
    /\ fcalls[p] < max
    /\ fcalls' = [fcalls EXCEPT ![p] = @ + 1]
    /\ UNCHANGED <<svars, tvars, facade>>

\* The state new_server / new_self_signed_server (kind "server": the channel, the
\* spawned loop at its first accept, the empty table) and new_client /
\* new_native_client / new_insecure_client (kind "client": no channel, no task, the
\* empty table) leave behind.
SocketInit(kinds) ==
    /\ kind \in kinds
    /\ endpoint = "open"
    /\ connections = EmptyMap
    /\ connections_lock = FNoOwner
    /\ sessions = <<>>
    /\ pending = <<>>
    /\ arrived = 0
    /\ accept_loop = [pc |-> IF kind = "server" THEN "accept" ELSE "none", item |-> NoAttempt]
    /\ queue = <<>>
    /\ rx = IF kind = "server" THEN "open" ELSE "none"
    /\ ftask = [p \in FTasks |-> FIdle]
    /\ fret = [p \in FTasks |-> FNoRet]
    /\ fcalls = [p \in FTasks |-> 0]
    /\ facade = "alive"

\* HashMap::insert: the entry for k is set, whether or not there was one.
Insert(m, k, v) == [x \in DOMAIN m \cup {k} |-> IF x = k THEN v ELSE m[x]]
\* HashMap::remove
RemoveAll(m, k) == EmptyMap
Remove(m, k) == [x \in DOMAIN m \ {k} |-> m[x]]

\* Arc::new(QuicConnection::new(connection)) for a completed handshake with addr.
\* state: "open", "closed" (close was called, or the endpoint was closed) or
\* "dropped" (the last Arc is gone: the transport closes a connection nobody
\* holds). held: a reference exists outside the table (the local of the call that
\* made the session, then the Arc it returned to the caller).
NewSession(addr) == [addr |-> addr, state |-> "open", held |-> TRUE]

\* QuicConnection::close on session c (connection.rs:106-108).
CloseSession(ss, c) ==
    [ss EXCEPT ![c].state = IF @ = "open" THEN "closed" ELSE @]

\* The last reference to session c goes away.
DropSession(ss, c) ==
    [ss EXCEPT ![c].state = IF @ = "open" THEN "dropped" ELSE @]

\* The ways a handshake can end: a handshake on a closed endpoint fails.
HandshakeOutcomes == IF endpoint = "open" THEN {"ok", "fail"} ELSE {"fail"}

(* ------------------------ the endpoint, the peers --------------------- *)

\* A peer's handshake attempt reaches the endpoint (at most max of them, from the
\* addresses addrs; the endpoint buffers at most MaxPending).
Arrive(addrs, max) ==
    /\ kind = "server"
    /\ endpoint = "open"
    /\ arrived < max
    /\ Len(pending) < MaxPending
    /\ \E a \in addrs :
          pending' = Append(pending, Attempt(arrived + 1, a))
    /\ arrived' = arrived + 1
    /\ UNCHANGED <<kind, endpoint, connections, connections_lock, sessions, accept_loop,
                   queue, rx, ftask, fret, fcalls>>
    /\ UNCHANGED <<svars, tvars, facade>>

\* The endpoint is closed: its connections are closed and it takes no new attempt.
EndpointClose ==
    /\ endpoint = "open"
    /\ endpoint' = "closed"
    /\ sessions' = [c \in DOMAIN sessions |->
                       [sessions[c] EXCEPT !.state = IF @ = "open" THEN "closed" ELSE @]]
    /\ UNCHANGED <<kind, connections, connections_lock, pending, arrived, accept_loop,
                   queue, rx, ftask, fret, fcalls>>
    /\ UNCHANGED <<svars, tvars, facade>>

\* The caller drops the Arc that connect or accept returned for session c.
ReferenceDrop(c) ==
    /\ c \in DOMAIN sessions
    /\ sessions[c].held
    /\ \A p \in FTasks : ftask[p].sess # c
    /\ sessions' = IF \E a \in DOMAIN connections : connections[a] = c
                   THEN [sessions EXCEPT ![c].held = FALSE]
                   ELSE DropSession([sessions EXCEPT ![c].held = FALSE], c)
    /\ UNCHANGED <<kind, endpoint, connections, connections_lock, pending, arrived,
                   accept_loop, queue, rx, ftask, fret, fcalls>>
    /\ UNCHANGED <<svars, tvars, facade>>

\* Whether the spawned loop still owns endpoint_clone (socket.rs:32-37, 52-57):
\* the task is made by the server constructors only, and it keeps its clone of the
\* endpoint's handle until it ends.
LoopHoldsEndpoint(k, loop) == k = "server" /\ loop.pc # "done"

\* The caller drops the QuicSocket (no call borrows it). Its fields are dropped:
\* the table, and with it the table's reference to each session (a session nobody
\* else holds goes away), and the facade's handle of the endpoint. quinn's Endpoint
\* is a counted handle: the endpoint lives on while the loop holds endpoint_clone,
\* and goes away with the facade's handle when that was the last one.
FacadeDrop ==
    /\ facade = "alive"
    /\ \A p \in FTasks : ftask[p].pc = "idle"
    /\ facade' = "dropped"
    /\ connections' = EmptyMap
    /\ sessions' = [c \in DOMAIN sessions |->
                       IF c \in {connections[a] : a \in DOMAIN connections}
                              /\ ~sessions[c].held
                       THEN DropSession(sessions, c)[c]
                       ELSE sessions[c]]
    /\ endpoint' = IF LoopHoldsEndpoint(kind, accept_loop) \/ endpoint # "open"
                   THEN endpoint
                   ELSE "closed"
    /\ UNCHANGED <<kind, connections_lock, pending, arrived, accept_loop, queue, rx,
                   ftask, fret, fcalls>>
    /\ UNCHANGED <<svars, tvars>>

\* The caller drops the receiver new_server returned: the channel closes and the
\* attempts still in its buffer are dropped. accept borrows the receiver mutably,
\* so this happens only while no accept is running.
AcceptPcs == {"accept_recv", "accept_handshake", "accept_insert"}

ReceiverDrop ==
    /\ rx = "open"
    /\ \A p \in FTasks : ftask[p].pc \notin AcceptPcs
    /\ rx' = "closed"
    /\ queue' = <<>>
    /\ UNCHANGED <<kind, endpoint, connections, connections_lock, sessions, pending,
                   arrived, accept_loop, ftask, fret, fcalls>>
    /\ UNCHANGED <<svars, tvars, facade>>

(* --------------------------- the accept loop -------------------------- *)

\* mpsc::channel(100) (socket.rs:31, 51)
channel_capacity == 100

\* Sender::send(item).await on the channel with buffer q and receiver state r: an
\* error once the receiver is gone, else it waits for a free slot.
ChannelSendDropsWhenFull(q, r) ==
    IF r # "open" \/ Len(q) >= channel_capacity THEN "err" ELSE "ok"
ChannelSend(q, r) ==
    IF r # "open" THEN "err"
    ELSE IF Len(q) >= channel_capacity THEN "wait"
    ELSE "ok"

\* Receiver::recv().await on the buffer q: the oldest item; None once the buffer is
\* empty and the sender is gone (the loop has ended); else it waits.
ChannelRecvNeverCloses(q, loop) == IF q # <<>> THEN "some" ELSE "wait"
ChannelRecv(q, loop) ==
    IF q # <<>> THEN "some"
    ELSE IF loop.pc = "done" THEN "none"
    ELSE "wait"

\* socket.rs:34  while let Some(incoming) = endpoint_clone.accept().await
\* The endpoint yields its buffered attempts in arrival order, and None once it is
\* closed: the loop ends and its sender is dropped.
LoopAccept ==
    /\ accept_loop.pc = "accept"
    /\ IF pending # <<>>
       THEN /\ accept_loop' = [pc |-> "send", item |-> Head(pending)]
            /\ pending' = Tail(pending)
       ELSE /\ endpoint = "closed"
            /\ accept_loop' = [pc |-> "done", item |-> NoAttempt]
            /\ UNCHANGED pending
    /\ UNCHANGED <<kind, endpoint, connections, connections_lock, sessions, arrived,
                   queue, rx, ftask, fret, fcalls>>
    /\ UNCHANGED <<svars, tvars, facade>>

\* socket.rs:35  let _ = tx.send(incoming).await;  the result is ignored
LoopSend ==
    LET out == ChannelSend(queue, rx) IN
    /\ accept_loop.pc = "send"
    /\ out # "wait"
    /\ queue' = IF out = "ok" THEN Append(queue, accept_loop.item) ELSE queue
    /\ accept_loop' = [pc |-> "accept", item |-> NoAttempt]
    /\ UNCHANGED <<kind, endpoint, connections, connections_lock, sessions, pending,
                   arrived, rx, ftask, fret, fcalls>>
    /\ UNCHANGED <<svars, tvars, facade>>

(* ------------------------------ connect ------------------------------- *)

\* socket.rs:93  self.endpoint.connect(server_addr, server_name)?, before the await:
\* it fails at once on an endpoint without a client configuration (the server
\* endpoints are built without one: endpoint.rs:69, 79), on a closed endpoint and
\* for a server name that is not a valid name.
ConnectStart(name_ok) ==
    IF kind = "client" /\ endpoint = "open" /\ name_ok THEN "ok" ELSE "err"

\* socket.rs:92-93  the call of connect, up to its first await
SocketConnect(p, max, addr, name_ok) ==
    /\ FEnter(p, max)
    /\ IF ConnectStart(name_ok) = "ok"
       THEN /\ ftask' = [ftask EXCEPT ![p] = [FIdle EXCEPT !.pc = "connect_handshake",
                                                           !.addr = addr]]
            /\ fret' = [fret EXCEPT ![p] = FNoRet]
       ELSE FReturn(p, FRet("connect", "err", 0, addr))
    /\ UNCHANGED <<kind, endpoint, connections, connections_lock, sessions, pending,
                   arrived, accept_loop, queue, rx>>

\* The table's lock over a handshake (socket.rs:93-95, 104-110): connect and accept
\* await the handshake and QuicConnection::new first and call
\* self.connections.lock() only in the statement of the insert, so no guard of the
\* table is alive while the handshake is awaited: the lock stays as it was.
HandshakeLockHeld(own, p) == IF own = FNoOwner THEN p ELSE own
HandshakeLock(own, p) == own

\* socket.rs:93-94  the handshake ends: `.await?`, then QuicConnection::new
SocketConnectHandshake(p) ==
    /\ ftask[p].pc = "connect_handshake"
    /\ \E out \in HandshakeOutcomes :
          IF out = "ok"
          THEN /\ sessions' = Append(sessions, NewSession(ftask[p].addr))
               /\ ftask' = [ftask EXCEPT ![p].pc = "connect_insert",
                                         ![p].sess = Len(sessions) + 1]
               /\ UNCHANGED fret
          ELSE /\ FReturn(p, FRet("connect", "err", 0, ftask[p].addr))
               /\ UNCHANGED sessions
    /\ connections_lock' = HandshakeLock(connections_lock, p)
    /\ UNCHANGED <<kind, endpoint, connections, pending, arrived,
                   accept_loop, queue, rx, fcalls>>
    /\ UNCHANGED <<svars, tvars, facade>>

\* What connect and accept do to the table (socket.rs:95, 110).
InsertIfAbsent(m, k, v) == IF k \in DOMAIN m THEN m ELSE Insert(m, k, v)
Register(m, k, v) == Insert(m, k, v)

\* The Arc that insert returns (the entry it replaced) is dropped at the end of the
\* statement: close is not called on it; the session goes away only if that was the
\* last reference to it.
Replaced(ss, m, k, v) ==
    IF k \in DOMAIN m /\ m[k] # v /\ ~ss[m[k]].held THEN DropSession(ss, m[k]) ELSE ss

\* socket.rs:95-97  self.connections.lock().await.insert(server_addr, ..); Ok(..)
SocketConnectInsert(p) ==
    /\ ftask[p].pc = "connect_insert"
    /\ connections_lock = FNoOwner
    /\ connections' = Register(connections, ftask[p].addr, ftask[p].sess)
    /\ sessions' = Replaced(sessions, connections, ftask[p].addr, ftask[p].sess)
    /\ FReturn(p, FRet("connect", "ok", ftask[p].sess, ftask[p].addr))
    /\ UNCHANGED <<kind, endpoint, connections_lock, pending, arrived,
                   accept_loop, queue, rx, fcalls>>
    /\ UNCHANGED <<svars, tvars, facade>>

(* ------------------------------- accept ------------------------------- *)

\* socket.rs:102  the call of accept, up to its first await. The receiver is
\* borrowed mutably for the call: one accept at a time on it.
SocketAccept(p, max) ==
    /\ FEnter(p, max)
    /\ rx = "open"
    /\ \A q \in FTasks : ftask[q].pc \notin AcceptPcs
    /\ ftask' = [ftask EXCEPT ![p] = [FIdle EXCEPT !.pc = "accept_recv"]]
    /\ fret' = [fret EXCEPT ![p] = FNoRet]
    /\ UNCHANGED <<kind, endpoint, connections, connections_lock, sessions, pending,
                   arrived, accept_loop, queue, rx>>

\* socket.rs:103, 114  if let Some(connecting) = incoming.recv().await { .. } None
SocketAcceptRecv(p) ==
    LET out == ChannelRecv(queue, accept_loop) IN
    /\ ftask[p].pc = "accept_recv"
    /\ out # "wait"
    /\ IF out = "some"
       THEN /\ queue' = Tail(queue)
            /\ ftask' = [ftask EXCEPT ![p].pc = "accept_handshake",
                                      ![p].item = Head(queue)]
            /\ UNCHANGED fret
       ELSE /\ FReturn(p, FRet("accept", "none", 0, NoAddr))
            /\ UNCHANGED queue
    /\ UNCHANGED <<kind, endpoint, connections, connections_lock, sessions, pending,
                   arrived, accept_loop, rx, fcalls>>
    /\ UNCHANGED <<svars, tvars, facade>>

\* What accept returns when the handshake fails (socket.rs:106).
AcceptFailedAsError(item) == FRet("accept", "err", 0, item.addr)
AcceptFailed(item) == FRet("accept", "none", 0, NoAddr)

\* socket.rs:104-109  connecting.await: Ok(conn) => QuicConnection::new(conn),
\* Err(_) => return None; then remote_address()
SocketAcceptHandshake(p) ==
    /\ ftask[p].pc = "accept_handshake"
    /\ \E out \in HandshakeOutcomes :
          IF out = "ok"
          THEN /\ sessions' = Append(sessions, NewSession(ftask[p].item.addr))
               /\ ftask' = [ftask EXCEPT ![p].pc = "accept_insert",
                                         ![p].sess = Len(sessions) + 1,
                                         ![p].addr = ftask[p].item.addr]
               /\ UNCHANGED fret
          ELSE /\ FReturn(p, AcceptFailed(ftask[p].item))
               /\ UNCHANGED sessions
    /\ connections_lock' = HandshakeLock(connections_lock, p)
    /\ UNCHANGED <<kind, endpoint, connections, pending, arrived,
                   accept_loop, queue, rx, fcalls>>
    /\ UNCHANGED <<svars, tvars, facade>>

\* socket.rs:110-112  self.connections.lock().await.insert(remote_addr, ..); Some(..)
SocketAcceptInsert(p) ==
    /\ ftask[p].pc = "accept_insert"
    /\ connections_lock = FNoOwner
    /\ connections' = Register(connections, ftask[p].addr, ftask[p].sess)
    /\ sessions' = Replaced(sessions, connections, ftask[p].addr, ftask[p].sess)
    /\ FReturn(p, FRet("accept", "some", ftask[p].sess, ftask[p].addr))
    /\ UNCHANGED <<kind, endpoint, connections_lock, pending, arrived,
                   accept_loop, queue, rx, fcalls>>
    /\ UNCHANGED <<svars, tvars, facade>>

(* --------------------- close_connection, close_all -------------------- *)

\* socket.rs:131  the call of close_connection, up to its first await
SocketCloseConnection(p, max) ==
    /\ FEnter(p, max)
    /\ ftask' = [ftask EXCEPT ![p] = [FIdle EXCEPT !.pc = "closeconn_lock"]]
    /\ fret' = [fret EXCEPT ![p] = FNoRet]
    /\ UNCHANGED <<kind, endpoint, connections, connections_lock, sessions, pending,
                   arrived, accept_loop, queue, rx>>

\* socket.rs:132-134  if let Some(conn) = self.connections.lock().await.remove(addr)
\* { conn.close().await; }: once the lock is taken nothing suspends (close has no
\* await inside), so the removal and the close are one step.
SocketCloseConnectionRemove(p, addr) ==
    /\ ftask[p].pc = "closeconn_lock"
    /\ connections_lock = FNoOwner
    /\ IF addr \in DOMAIN connections
       THEN /\ connections' = Remove(connections, addr)
            /\ sessions' = CloseSession(sessions, connections[addr])
       ELSE UNCHANGED <<connections, sessions>>
    /\ FReturn(p, FRet("close_connection", "done", 0, addr))
    /\ UNCHANGED <<kind, endpoint, connections_lock, pending, arrived, accept_loop,
                   queue, rx, fcalls>>
    /\ UNCHANGED <<svars, tvars, facade>>

\* socket.rs:139  the call of close_all, up to its first await
SocketCloseAll(p, max) ==
    /\ FEnter(p, max)
    /\ ftask' = [ftask EXCEPT ![p] = [FIdle EXCEPT !.pc = "closeall_lock"]]
    /\ fret' = [fret EXCEPT ![p] = FNoRet]
    /\ UNCHANGED <<kind, endpoint, connections, connections_lock, sessions, pending,
                   arrived, accept_loop, queue, rx>>

\* socket.rs:140  the MutexGuard of the table that close_all binds to a local: the
\* lock is p's until the local goes out of scope at the end of the function.
LockGuardDropped(p) == FNoOwner
LockGuard(p) == p

\* socket.rs:140-141  let mut connections = self.connections.lock().await; the
\* iteration over connections.values() starts.
SocketCloseAllLock(p) ==
    /\ ftask[p].pc = "closeall_lock"
    /\ connections_lock = FNoOwner
    /\ connections_lock' = LockGuard(p)
    /\ ftask' = [ftask EXCEPT ![p].pc = "closeall_close",
                              ![p].rest = {connections[a] : a \in DOMAIN connections}]
    /\ UNCHANGED <<kind, endpoint, connections, sessions, pending, arrived, accept_loop,
                   queue, rx, fret, fcalls>>
    /\ UNCHANGED <<svars, tvars, facade>>

\* socket.rs:141-143  one turn of the loop: conn.close().await (in the map's order)
SocketCloseAllClose(p) ==
    /\ ftask[p].pc = "closeall_close"
    /\ \E c \in ftask[p].rest :
          /\ sessions' = CloseSession(sessions, c)
          /\ ftask' = [ftask EXCEPT ![p].rest = @ \ {c}]
    /\ UNCHANGED <<kind, endpoint, connections, connections_lock, pending, arrived,
                   accept_loop, queue, rx, fret, fcalls>>
    /\ UNCHANGED <<svars, tvars, facade>>

\* socket.rs:144-145  connections.clear(); the guard is dropped
SocketCloseAllClear(p) ==
    /\ ftask[p].pc = "closeall_close"
    /\ ftask[p].rest = {}
    /\ connections' = EmptyMap
    /\ connections_lock' = FNoOwner
    /\ FReturn(p, FRet("close_all", "done", 0, NoAddr))
    /\ UNCHANGED <<kind, endpoint, sessions, pending, arrived, accept_loop, queue, rx,
                   fcalls>>
    /\ UNCHANGED <<svars, tvars, facade>>

(* ---------------------------- send, receive --------------------------- *)

\* socket.rs:119-121  send(&self, connection, stream_id, data) is
\* connection.send(stream_id, data).await: the call and every later step of it are
\* the session's own, on the session passed in; self is not used.
SocketSend(p) == facade = "alive" /\ SendCall(p)

\* socket.rs:125-127  receive(&self, connection, stream_id) is
\* connection.receive(stream_id).await.
SocketReceive(p) == facade = "alive" /\ ReceiveCall(p)

(* ================== endpoint construction: tls/, endpoint.rs =========== *)

\* The files of the model and the extensions a path to one of them may carry.
Files == {"f1", "f2"}
Exts == {"der", "pem", "DER"}

\* Option<&Path>: None, or a path naming a file with an extension.
NoPath == [file |-> "none", ext |-> "none"]
Path(f, e) == [file |-> f, ext |-> e]
Paths == {NoPath} \cup {Path(f, e) : f \in Files, e \in Exts}

\* What a file holds, as the PEM reader sees it: a sequence of sections, each a
\* certificate block, a private-key block, or a block that does not decode.
Sections == {"cert", "key", "bad"}
SectionSeqs ==
    UNION {[1..n -> Sections] : n \in 0..MaxSections}
Contents ==
    {[readable |-> FALSE, sections |-> <<>>]}
        \cup {[readable |-> TRUE, sections |-> s] : s \in SectionSeqs}

\* A certificate or key taken from block i of file f; block 0 is the whole content
\* of the file taken raw.
Block(f, i) == [file |-> f, block |-> i]
\* No key.
NoKey == [file |-> "none", block |-> 0]
\* tls/mod.rs:12-14  the pair rcgen makes for the host name "localhost"
GeneratedCert == [file |-> "rcgen:localhost", block |-> 0]
GeneratedKey == [file |-> "rcgen:localhost", block |-> 1]

\* Result<T>: Ok(val) or Err(err); reads lists the files read on the way.
Ok(v, r) == [st |-> "ok", val |-> v, err |-> "none", reads |-> r]
Err(e, r) == [st |-> "err", val |-> <<>>, err |-> e, reads |-> r]

\* The indices of the sections of kind k in s, in file order.
RECURSIVE Select(_, _, _)
Select(s, k, i) ==
    IF i > Len(s) THEN <<>>
    ELSE IF s[i] = k THEN <<i>> \o Select(s, k, i + 1)
    ELSE Select(s, k, i + 1)

\* rustls_pemfile::certs(..).collect::<Result<Vec<_>, _>>(): every certificate
\* block in order, blocks of another kind skipped; an error if a block does not
\* decode.
PemCerts(f, s) ==
    IF \E i \in DOMAIN s : s[i] = "bad" THEN Err("invalid PEM-encoded certificate", <<f>>)
    ELSE Ok([j \in DOMAIN Select(s, "cert", 1) |-> Block(f, Select(s, "cert", 1)[j])], <<f>>)

\* rustls_pemfile::private_key: the first key block; blocks of another kind before
\* it are skipped, one that does not decode is an error; None without a key block.
RECURSIVE PemPrivateKey(_, _, _)
PemPrivateKey(f, s, i) ==
    IF i > Len(s) THEN Err("no private keys found", <<f>>)
    ELSE IF s[i] = "key" THEN Ok(Block(f, i), <<f>>)
    ELSE IF s[i] = "bad" THEN Err("malformed PKCS #1 private key", <<f>>)
    ELSE PemPrivateKey(f, s, i + 1)

\* tls/certificate.rs:25-35
load_certs(files, path) ==
    IF ~files[path.file].readable THEN Err("failed to read certificate chain", <<path.file>>)
    ELSE IF path.ext = "der" THEN Ok(<<Block(path.file, 0)>>, <<path.file>>)
    ELSE PemCerts(path.file, files[path.file].sections)

\* tls/key.rs:8-18
load_key(files, path) ==
    IF ~files[path.file].readable THEN Err("failed to read private key", <<path.file>>)
    ELSE IF path.ext = "der" THEN Ok(Block(path.file, 0), <<path.file>>)
    ELSE PemPrivateKey(path.file, files[path.file].sections, 1)

\* tls/mod.rs:11-16
generate_self_signed_pair == Ok([chain |-> <<GeneratedCert>>, key |-> GeneratedKey], <<>>)

\* tls/mod.rs:19-30: both paths given: load_certs(cert_path)?, then
\* load_key(key_path)?; else the generated pair.
load_or_generate_fallback(files, cert_path, key_path) ==
    IF cert_path # NoPath /\ key_path # NoPath
    THEN LET c == load_certs(files, cert_path)
             k == load_key(files, key_path)
         IN IF c.st = "ok" /\ k.st = "ok"
            THEN Ok([chain |-> c.val, key |-> k.val], c.reads \o k.reads)
            ELSE [generate_self_signed_pair EXCEPT !.reads = c.reads \o k.reads]
    ELSE generate_self_signed_pair
load_or_generate_cert(files, cert_path, key_path) ==
    IF cert_path # NoPath /\ key_path # NoPath
    THEN LET c == load_certs(files, cert_path) IN
         IF c.st = "err" THEN Err(c.err, c.reads)
         ELSE LET k == load_key(files, key_path) IN
              IF k.st = "err" THEN Err(k.err, c.reads \o k.reads)
              ELSE Ok([chain |-> c.val, key |-> k.val], c.reads \o k.reads)
    ELSE generate_self_signed_pair

\* endpoint.rs:122  the identifier the crate names for the handshake
ALPN_QUIC_HTTP == <<"hq-29">>

\* A transport configuration as the handshake sees it: whose it is, what it trusts
\* or presents, and the application protocols it advertises. No construction of
\* endpoint.rs assigns alpn_protocols, and quinn's and rustls's builders leave the
\* list empty.
ClientConfigOf(trust) ==
    [role |-> "client", trust |-> trust, chain |-> <<>>, key |-> NoKey,
     alpn_protocols |-> <<>>]
ServerConfigOf(pair) ==
    [role |-> "server", trust |-> "none", chain |-> pair.chain, key |-> pair.key,
     alpn_protocols |-> <<>>]

\* endpoint.rs:88-97  certs.add(cert)? for each pinned certificate (certs_ok: each
\* of them parses), then ClientConfig::with_root_certificates
configure_client(certs_ok) ==
    IF certs_ok THEN Ok(ClientConfigOf("pinned"), <<>>)
    ELSE Err("invalid certificate", <<>>)

\* endpoint.rs:100-108  load_or_generate_cert(..)?, ServerConfig::with_single_cert(..)?
\* (tls_ok: rustls takes the loaded chain and key; it always takes the generated
\* pair)
configure_server(files, cert_path, key_path, tls_ok) ==
    LET pair == load_or_generate_cert(files, cert_path, key_path) IN
    IF pair.st = "err" THEN pair
    ELSE IF tls_ok \/ pair.val.key = GeneratedKey THEN Ok(ServerConfigOf(pair.val), pair.reads)
    ELSE Err("tls configuration", pair.reads)

\* endpoint.rs:111-120
configure_self_signed_server ==
    Ok(ServerConfigOf(generate_self_signed_pair.val), <<>>)

\* Endpoint::client(bind_addr)? / Endpoint::server(config, bind_addr)?  (bind_ok:
\* the socket binds)
Bind(cfg, bind_ok) ==
    IF cfg.st = "err" THEN cfg
    ELSE IF bind_ok THEN cfg
    ELSE Err("bind", cfg.reads)

\* endpoint.rs:18-26
make_client_endpoint(certs_ok, bind_ok) == Bind(configure_client(certs_ok), bind_ok)

\* endpoint.rs:29-38  get_native_certs()? (store_ok: the platform store loads),
\* then the rustls builder with these roots
make_native_client_endpoint(store_ok, bind_ok) ==
    Bind(IF store_ok THEN Ok(ClientConfigOf("native"), <<>>)
         ELSE Err("native certificates", <<>>),
         bind_ok)

\* endpoint.rs:45-57  Endpoint::client first, then the configuration with the
\* SkipServerVerification verifier
make_insecure_client_endpoint(bind_ok) == Bind(Ok(ClientConfigOf("skip"), <<>>), bind_ok)

\* endpoint.rs:63-71
make_server_endpoint(files, cert_path, key_path, tls_ok, bind_ok) ==
    Bind(configure_server(files, cert_path, key_path, tls_ok), bind_ok)

\* endpoint.rs:75-81
make_self_signed_server_endpoint(bind_ok) == Bind(configure_self_signed_server, bind_ok)

\* What the program has built: op the function called, its path arguments, and
\* its result.
NoBuild ==
    [op |-> "none", cert_path |-> NoPath, key_path |-> NoPath, st |-> "none",
     err |-> "none", val |-> <<>>]
Built(op, cp, kp, r) ==
    [op |-> op, cert_path |-> cp, key_path |-> kp, st |-> r.st, err |-> r.err,
     val |-> r.val]

\* A handshake that has not started.
NoHandshake == [pc |-> "none"]

\* Before any construction: no facade, nothing built, nothing read.
NoSocket ==
    /\ kind = "none"
    /\ endpoint = "none"
    /\ connections = EmptyMap
    /\ connections_lock = FNoOwner
    /\ sessions = <<>>
    /\ pending = <<>>
    /\ arrived = 0
    /\ accept_loop = [pc |-> "none", item |-> NoAttempt]
    /\ queue = <<>>
    /\ rx = "none"
    /\ ftask = [p \in FTasks |-> FIdle]
    /\ fret = [p \in FTasks |-> FNoRet]
    /\ fcalls = [p \in FTasks |-> 0]
    /\ facade = "none"

\* The construction is not part of the run: the facade and the session exist.
ConstructionDone ==
    /\ fs = [f \in Files |-> [readable |-> FALSE, sections |-> <<>>]]
    /\ built = NoBuild
    /\ reads = <<>>
    /\ hs = NoHandshake

\* A call of a function of tls/ or of a constructor of QuicSocket: one call per run.
Construct(op, cp, kp, r) ==
    /\ built.op = "none"
    /\ built' = Built(op, cp, kp, r)
    /\ reads' = reads \o r.reads
    /\ UNCHANGED <<fs, hs>>
    /\ UNCHANGED svars

\* socket.rs:28-30, 48-50, 66, 75, 84  Err(e) => return Err(e) / `?`: the
\* constructor returns before it makes anything.
\* socket.rs:31-39, 51-59: the channel, the spawned loop, the facade with an empty
\* table; socket.rs:67-68, 76-77, 85-86: the facade alone.
Facade(r, k) ==
    IF r.st = "ok"
    THEN /\ kind' = k
         /\ endpoint' = "open"
         /\ accept_loop' = [pc |-> IF k = "server" THEN "accept" ELSE "none",
                            item |-> NoAttempt]
         /\ rx' = IF k = "server" THEN "open" ELSE "none"
         /\ facade' = "alive"
         /\ UNCHANGED <<connections, connections_lock, sessions, pending, arrived, queue,
                        ftask, fret, fcalls>>
    ELSE UNCHANGED fvars

\* tls/certificate.rs:25  a call of load_certs
LoadCerts(path) ==
    /\ Construct("load_certs", path, NoPath, load_certs(fs, path))
    /\ UNCHANGED fvars

\* tls/key.rs:8  a call of load_key
LoadKey(path) ==
    /\ Construct("load_key", NoPath, path, load_key(fs, path))
    /\ UNCHANGED fvars

\* tls/mod.rs:19  a call of load_or_generate_cert
LoadOrGenerateCert(cert_path, key_path) ==
    /\ Construct("load_or_generate_cert", cert_path, key_path,
                 load_or_generate_cert(fs, cert_path, key_path))
    /\ UNCHANGED fvars

\* socket.rs:24-40
NewServer(cert_path, key_path, tls_ok, bind_ok) ==
    LET r == make_server_endpoint(fs, cert_path, key_path, tls_ok, bind_ok) IN
    /\ Construct("new_server", cert_path, key_path, r)
    /\ Facade(r, "server")

\* socket.rs:44-60
NewSelfSignedServer(bind_ok) ==
    LET r == make_self_signed_server_endpoint(bind_ok) IN
    /\ Construct("new_self_signed_server", NoPath, NoPath, r)
    /\ Facade(r, "server")

\* socket.rs:64-68
NewClient(certs_ok, bind_ok) ==
    LET r == make_client_endpoint(certs_ok, bind_ok) IN
    /\ Construct("new_client", NoPath, NoPath, r)
    /\ Facade(r, "client")

\* socket.rs:74-78
NewNativeClient(store_ok, bind_ok) ==
    LET r == make_native_client_endpoint(store_ok, bind_ok) IN
    /\ Construct("new_native_client", NoPath, NoPath, r)
    /\ Facade(r, "client")

\* socket.rs:84-88
NewInsecureClient(bind_ok) ==
    LET r == make_insecure_client_endpoint(bind_ok) IN
    /\ Construct("new_insecure_client", NoPath, NoPath, r)
    /\ Facade(r, "client")

(* ------------- the verifier of the insecure client: endpoint.rs -------- *)

\* The keys a certificate may carry and a signature may be made with, and the
\* signature schemes a server may use; the provider (ring) verifies the schemes of
\* ProviderSchemes only.
SigKeys == {"k1", "k2"}
Schemes == {"ecdsa_nistp256_sha256", "ed25519", "rsa_pkcs1_sha1"}
ProviderSchemes == {"ecdsa_nistp256_sha256", "ed25519"}

\* The certificate a server presents: its key, whether it chains to a trusted
\* root, whether it names the server the client asked for, whether it is in its
\* validity period.
PresentedCerts ==
    [key : SigKeys, trusted : BOOLEAN, name_ok : BOOLEAN, valid_now : BOOLEAN]
\* The signature over the handshake transcript: its scheme, the key it was made
\* with, whether it is over this transcript.
Signatures == [scheme : Schemes, key : SigKeys, msg_ok : BOOLEAN]

\* endpoint.rs:136-145  Ok(ServerCertVerified::assertion()), whatever the arguments
verify_server_cert_checked(cert) ==
    IF cert.trusted /\ cert.name_ok /\ cert.valid_now THEN "ok" ELSE "err"
verify_server_cert(cert) == "ok"

\* rustls::crypto::verify_tls12_signature / verify_tls13_signature with the
\* algorithms algs: the scheme must be one of them and the signature must verify
\* under the certificate's key.
VerifySignature(cert, dss, algs) ==
    IF dss.scheme \in algs /\ dss.key = cert.key /\ dss.msg_ok THEN "ok" ELSE "err"

\* endpoint.rs:147-159
verify_tls12_signature(cert, dss) == VerifySignature(cert, dss, ProviderSchemes)
\* endpoint.rs:161-173
verify_tls13_signature(cert, dss) == VerifySignature(cert, dss, ProviderSchemes)
\* endpoint.rs:175-177
supported_verify_schemes == ProviderSchemes

\* A handshake of the insecure client at the point where rustls has the server's
\* certificate: it calls verify_server_cert, then the signature check of the
\* protocol version.
Handshake(cert, version, dss) ==
    [pc |-> "certificate", cert |-> cert, version |-> version, dss |-> dss,
     cert_verdict |-> "none", sig_verdict |-> "none", result |-> "none"]

\* rustls calls verify_server_cert (endpoint.rs:136)
HsVerifyCert ==
    /\ built.op = "new_insecure_client" /\ built.st = "ok"
    /\ hs.pc = "certificate"
    /\ LET v == verify_server_cert(hs.cert) IN
       hs' = [hs EXCEPT !.cert_verdict = v,
                        !.pc = IF v = "ok" THEN "signature" ELSE "done",
                        !.result = IF v = "ok" THEN "none" ELSE "rejected_certificate"]
    /\ UNCHANGED <<fs, built, reads>>
    /\ UNCHANGED <<svars, fvars>>

\* rustls calls verify_tls12_signature or verify_tls13_signature (endpoint.rs:147, 161)
HsVerifySignature ==
    /\ hs.pc = "signature"
    /\ LET v == IF hs.version = "tls12" THEN verify_tls12_signature(hs.cert, hs.dss)
                ELSE verify_tls13_signature(hs.cert, hs.dss)
       IN
       hs' = [hs EXCEPT !.sig_verdict = v,
                        !.pc = "done",
                        !.result = IF v = "ok" THEN "accepted" ELSE "rejected_signature"]
    /\ UNCHANGED <<fs, built, reads>>
    /\ UNCHANGED <<svars, fvars>>

(* --------------------------- specifications --------------------------- *)

\* The handles a caller may pass: every one the session can hold, and one more.
HandleArgs == 0..MaxStreams

SmallPayloads == {Bytes(n, Seed) : n \in SmallLens}

AllPayloads == {Bytes(n, Seed) : n \in PayloadLens}

\* The tasks of the session under study.
SessionTasks == {p \in Procs : SideOf(p) = "A"}

\* A session of a client facade, after QuicConnection::new.
Init == ConnectionInit /\ SocketInit({"client"}) /\ ConstructionDone

\* One session with NTasks concurrent callers; its peer acts through the transport.
Next ==
    \/ \E p \in SessionTasks : OpenBi(p)
    \/ \E p \in SessionTasks : OpenLockSend(p)
    \/ \E p \in SessionTasks : OpenLockRecv(p)
    \/ \E p \in SessionTasks : OpenInsert(p)
    \/ \E p \in SessionTasks : AcceptCall(p)
    \/ \E p \in SessionTasks : AcceptBi(p)
    \/ \E p \in SessionTasks : AcceptLockSend(p)
    \/ \E p \in SessionTasks : AcceptLockRecv(p)
    \/ \E p \in SessionTasks : AcceptInsert(p)
    \/ \E p \in SessionTasks : SendCall(p)
    \/ \E p \in SessionTasks, h \in HandleArgs, data \in SmallPayloads : SendLookup(p, h, data)
    \/ \E p \in SessionTasks : SendWrite(p)
    \/ \E p \in SessionTasks : SendFlush(p)
    \/ \E p \in SessionTasks : SendFinish(p)
    \/ \E p \in SessionTasks : SendStopped(p)
    \/ \E p \in SessionTasks : ReceiveCall(p)
    \/ \E p \in SessionTasks, h \in HandleArgs : ReceiveLookup(p, h)
    \/ \E p \in SessionTasks : ReceiveRead(p)
    \/ \E p \in SessionTasks : Close(p)
    \/ ConnectionLost("A")
    \/ PeerOpen
    \/ \E t \in 1..MaxStreams : PeerSend(t)
    \/ \E t \in 1..MaxStreams : PeerRead(t)

Spec == Init /\ [][Next]_vars

\* The payload of the sends below.
LockPayloads == {Bytes(1, Seed)}

\* The steps of task p that follow the call: each lock().await and each transport
\* call of the four operations.
TaskStep(p) ==
    \/ OpenLockSend(p)
    \/ OpenLockRecv(p)
    \/ OpenInsert(p)
    \/ AcceptBi(p)
    \/ AcceptLockSend(p)
    \/ AcceptLockRecv(p)
    \/ AcceptInsert(p)
    \/ \E h \in HandleArgs, data \in LockPayloads : SendLookup(p, h, data)
    \/ SendWrite(p)
    \/ SendFlush(p)
    \/ SendFinish(p)
    \/ SendStopped(p)
    \/ \E h \in HandleArgs : ReceiveLookup(p, h)
    \/ ReceiveRead(p)

\* One session with NTasks concurrent callers of the four operations.
NextLocks ==
    \/ \E p \in SessionTasks : OpenBi(p)
    \/ \E p \in SessionTasks : AcceptCall(p)
    \/ \E p \in SessionTasks : SendCall(p)
    \/ \E p \in SessionTasks : ReceiveCall(p)
    \/ \E p \in SessionTasks : TaskStep(p)
    \/ ConnectionLost("A")
    \/ PeerOpen
    \/ PeerSend(1)
    \/ \E t \in 1..MaxStreams : PeerRead(t)

\* The session with the scheduling the runtime gives and a transport whose calls
\* return: a task that can take its next step takes it (a tokio Mutex hands the
\* lock to its waiters, first come first served), the peer reads what it is sent,
\* and a call that waits for the peer for ever ends with the connection.
SpecFair ==
    /\ Init
    /\ [][NextLocks]_vars
    /\ \A p \in SessionTasks : WF_vars(TaskStep(p))
    /\ \A t \in 1..MaxStreams : WF_vars(PeerRead(t))
    /\ WF_vars(ConnectionLost("A"))

\* Two sessions, one on each side of the connection, one caller each: every payload
\* length, short reads, and the receive window.
PairTasks == {<<"A", 1>>, <<"B", 1>>}

NextPair ==
    \/ \E p \in PairTasks : OpenBi(p)
    \/ \E p \in PairTasks : OpenLockSend(p)
    \/ \E p \in PairTasks : OpenLockRecv(p)
    \/ \E p \in PairTasks : OpenInsert(p)
    \/ \E p \in PairTasks : AcceptCall(p)
    \/ \E p \in PairTasks : AcceptBi(p)
    \/ \E p \in PairTasks : AcceptLockSend(p)
    \/ \E p \in PairTasks : AcceptLockRecv(p)
    \/ \E p \in PairTasks : AcceptInsert(p)
    \/ \E p \in PairTasks : SendCall(p)
    \/ \E p \in PairTasks, h \in HandleArgs, data \in AllPayloads : SendLookup(p, h, data)
    \/ \E p \in PairTasks : SendWrite(p)
    \/ \E p \in PairTasks : SendFlush(p)
    \/ \E p \in PairTasks : SendFinish(p)
    \/ \E p \in PairTasks : SendStopped(p)
    \/ \E p \in PairTasks : ReceiveCall(p)
    \/ \E p \in PairTasks, h \in HandleArgs : ReceiveLookup(p, h)
    \/ \E p \in PairTasks : ReceiveRead(p)
    \/ \E p \in PairTasks : Close(p)
    \/ \E s \in Sides : ConnectionLost(s)

SpecPair == Init /\ [][NextPair]_vars

\* A facade, server or client, with NFacadeTasks concurrent callers.
InitSocket == ConnectionInit /\ SocketInit({"server", "client"}) /\ ConstructionDone

NextSocket ==
    \/ \E p \in FTasks, a \in Addrs, n \in BOOLEAN : SocketConnect(p, SocketCalls, a, n)
    \/ \E p \in FTasks : SocketConnectHandshake(p)
    \/ \E p \in FTasks : SocketConnectInsert(p)
    \/ \E p \in FTasks : SocketAccept(p, SocketCalls)
    \/ \E p \in FTasks : SocketAcceptRecv(p)
    \/ \E p \in FTasks : SocketAcceptHandshake(p)
    \/ \E p \in FTasks : SocketAcceptInsert(p)
    \/ \E p \in FTasks : SocketCloseConnection(p, SocketCalls)
    \/ \E p \in FTasks, a \in Addrs : SocketCloseConnectionRemove(p, a)
    \/ \E p \in FTasks : SocketCloseAll(p, SocketCalls)
    \/ \E p \in FTasks : SocketCloseAllLock(p)
    \/ \E p \in FTasks : SocketCloseAllClose(p)
    \/ \E p \in FTasks : SocketCloseAllClear(p)
    \/ Arrive(Addrs, SocketAttempts)
    \/ LoopAccept
    \/ LoopSend
    \/ EndpointClose
    \/ ReceiverDrop
    \/ \E c \in 1..(NFacadeTasks * SocketCalls) : ReferenceDrop(c)

SpecSocket == InitSocket /\ [][NextSocket]_vars

\* The same with the scheduling the runtime gives: an accept that can take its next
\* step takes it, and a handshake comes to an end.
SpecSocketFair ==
    /\ SpecSocket
    /\ \A p \in FTasks : WF_vars(SocketAcceptRecv(p))
    /\ \A p \in FTasks : WF_vars(SocketAcceptHandshake(p))

\* A server facade whose peers send more attempts than the queue holds, and one
\* consumer.
InitQueue == ConnectionInit /\ SocketInit({"server"}) /\ ConstructionDone

NextQueue ==
    \/ SocketAccept(1, QueueCalls)
    \/ SocketAcceptRecv(1)
    \/ SocketAcceptHandshake(1)
    \/ SocketAcceptInsert(1)
    \/ Arrive({"a1"}, QueueAttempts)
    \/ LoopAccept
    \/ LoopSend
    \/ EndpointClose
    \/ ReceiverDrop

SpecQueue == InitQueue /\ [][NextQueue]_vars

\* The functions of tls/ and the five constructors, called on every file system of
\* the model with every choice of paths.
InitBuild ==
    /\ ConnectionInit
    /\ NoSocket
    /\ fs \in [Files -> Contents]
    /\ built = NoBuild
    /\ reads = <<>>
    /\ hs = NoHandshake

NextBuild ==
    \/ \E path \in Paths \ {NoPath} : LoadCerts(path)
    \/ \E path \in Paths \ {NoPath} : LoadKey(path)
    \/ \E cp, kp \in Paths : LoadOrGenerateCert(cp, kp)
    \/ \E cp, kp \in Paths : \E tls_ok, bind_ok \in BOOLEAN : NewServer(cp, kp, tls_ok, bind_ok)
    \/ \E bind_ok \in BOOLEAN : NewSelfSignedServer(bind_ok)
    \/ \E certs_ok, bind_ok \in BOOLEAN : NewClient(certs_ok, bind_ok)
    \/ \E store_ok, bind_ok \in BOOLEAN : NewNativeClient(store_ok, bind_ok)
    \/ \E bind_ok \in BOOLEAN : NewInsecureClient(bind_ok)

SpecBuild == InitBuild /\ [][NextBuild]_vars

\* An insecure client, after new_insecure_client, in a handshake with a server that
\* presents any certificate and any signature.
InitVerify ==
    /\ ConnectionInit
    /\ SocketInit({"client"})
    /\ fs = [f \in Files |-> [readable |-> FALSE, sections |-> <<>>]]
    /\ built = Built("new_insecure_client", NoPath, NoPath, make_insecure_client_endpoint(TRUE))
    /\ reads = <<>>
    /\ hs \in {Handshake(c, v, d) : c \in PresentedCerts, v \in {"tls12", "tls13"},
                                    d \in Signatures}

NextVerify ==
    \/ HsVerifyCert
    \/ HsVerifySignature

SpecVerify == InitVerify /\ [][NextVerify]_vars


\* Two connected sessions, A and B, each used by two tasks over a live transport:
\* task 1 of a side runs open_bi_stream and then send on the stream it opened,
\* task 2 runs accept_bi_stream and then receive on the stream the peer opened. A
\* payload either fits the stream's receive window or exceeds it.
Opener(s) == <<s, 1>>
Acceptor(s) == <<s, 2>>
Openers == {Opener(s) : s \in Sides}
Acceptors == {Acceptor(s) : s \in Sides}
DuplexPayloads == {Bytes(1, Seed), Bytes(StreamWindow + 1, Seed)}

\* The handles of side s for the streams that side d opened.
HandlesFor(s, d) ==
    {h \in DOMAIN send_streams[s] : streams[send_streams[s][h]].init = d}

NextDuplex ==
    \/ \E p \in Openers : ncalls[p] = 0 /\ OpenBi(p)
    \/ \E p \in Openers : OpenLockSend(p)
    \/ \E p \in Openers : OpenLockRecv(p)
    \/ \E p \in Openers : OpenInsert(p)
    \/ \E p \in Openers : ret[p].op = "open" /\ ret[p].st = "ok" /\ SendCall(p)
    \/ \E p \in Openers, data \in DuplexPayloads :
          \E h \in HandlesFor(SideOf(p), SideOf(p)) : SendLookup(p, h, data)
    \/ \E p \in Openers : SendWrite(p)
    \/ \E p \in Openers : SendFlush(p)
    \/ \E p \in Openers : SendFinish(p)
    \/ \E p \in Openers : SendStopped(p)
    \/ \E p \in Acceptors : ncalls[p] = 0 /\ AcceptCall(p)
    \/ \E p \in Acceptors : AcceptBi(p)
    \/ \E p \in Acceptors : AcceptLockSend(p)
    \/ \E p \in Acceptors : AcceptLockRecv(p)
    \/ \E p \in Acceptors : AcceptInsert(p)
    \/ \E p \in Acceptors : ret[p].op = "accept" /\ ret[p].st = "ok" /\ ReceiveCall(p)
    \/ \E p \in Acceptors :
          \E h \in HandlesFor(SideOf(p), Peer(SideOf(p))) : ReceiveLookup(p, h)
    \/ \E p \in Acceptors : ReceiveRead(p)

SpecDuplex == Init /\ [][NextDuplex]_vars

\* A facade, server or client, with one caller, its peers, and its owner, who may
\* drop the receiver, the sessions and the facade itself.
NextLifetime ==
    \/ \E a \in Addrs, name_ok \in BOOLEAN : SocketConnect(1, SocketCalls, a, name_ok)
    \/ SocketConnectHandshake(1)
    \/ SocketConnectInsert(1)
    \/ SocketAccept(1, SocketCalls)
    \/ SocketAcceptRecv(1)
    \/ SocketAcceptHandshake(1)
    \/ SocketAcceptInsert(1)
    \/ SocketCloseConnection(1, SocketCalls)
    \/ \E a \in Addrs : SocketCloseConnectionRemove(1, a)
    \/ SocketCloseAll(1, SocketCalls)
    \/ SocketCloseAllLock(1)
    \/ SocketCloseAllClose(1)
    \/ SocketCloseAllClear(1)
    \/ Arrive(Addrs, SocketAttempts)
    \/ LoopAccept
    \/ LoopSend
    \/ EndpointClose
    \/ ReceiverDrop
    \/ \E c \in 1..SocketCalls : ReferenceDrop(c)
    \/ FacadeDrop

SpecLifetime == InitSocket /\ [][NextLifetime]_vars

\* A facade, server or client, used by three tasks at once: the transfer task opens
\* a stream on a session it got from the facade earlier and calls the facade's send
\* or receive on it; the two others each make one call of connect, accept,
\* close_connection or close_all.
TransferTask == <<"A", 1>>
TransferPayloads == {Bytes(1, Seed), Bytes(chunk_size + 1, Seed)}
TableCalls == 1

NextTransfer ==
    \/ OpenBi(TransferTask)
    \/ OpenLockSend(TransferTask)
    \/ OpenLockRecv(TransferTask)
    \/ OpenInsert(TransferTask)
    \/ SocketSend(TransferTask)
    \/ \E h \in DOMAIN send_streams["A"], data \in TransferPayloads :
          SendLookup(TransferTask, h, data)
    \/ SendWrite(TransferTask)
    \/ SendFlush(TransferTask)
    \/ SendFinish(TransferTask)
    \/ SendStopped(TransferTask)
    \/ SocketReceive(TransferTask)
    \/ \E h \in DOMAIN recv_streams["A"] : ReceiveLookup(TransferTask, h)
    \/ ReceiveRead(TransferTask)
    \/ \E t \in 1..MaxStreams : PeerSend(t)
    \/ \E t \in 1..MaxStreams : PeerRead(t)
    \/ \E p \in FTasks, a \in Addrs : SocketConnect(p, TableCalls, a, TRUE)
    \/ \E p \in FTasks : SocketConnectHandshake(p)
    \/ \E p \in FTasks : SocketConnectInsert(p)
    \/ \E p \in FTasks : SocketAccept(p, TableCalls)
    \/ \E p \in FTasks : SocketAcceptRecv(p)
    \/ \E p \in FTasks : SocketAcceptHandshake(p)
    \/ \E p \in FTasks : SocketAcceptInsert(p)
    \/ \E p \in FTasks : SocketCloseConnection(p, TableCalls)
    \/ \E p \in FTasks, a \in Addrs : SocketCloseConnectionRemove(p, a)
    \/ \E p \in FTasks : SocketCloseAll(p, TableCalls)
    \/ \E p \in FTasks : SocketCloseAllLock(p)
    \/ \E p \in FTasks : SocketCloseAllClose(p)
    \/ \E p \in FTasks : SocketCloseAllClear(p)
    \/ Arrive({"a1"}, 1)
    \/ LoopAccept
    \/ LoopSend

SpecTransfer == InitSocket /\ [][NextTransfer]_vars

(* ============================== claims =============================== *)

Range(f) == {f[i] : i \in DOMAIN f}

\* The pcs in which a task is inside the transfer of send: between the lookup and
\* the return, every transport step of send.
SendTransfer == {"send_write", "send_flush", "send_finish", "send_stopped"}
\* The pcs of a stream allocation that has taken the lock of the send map, and of
\* one that has taken the lock of the receive map too.
AllocHasSend == {"open_recv_lock", "open_insert", "accept_recv_lock", "accept_insert"}
AllocHasRecv == {"open_insert", "accept_insert"}

\* C1: on each session the handles returned by the successful open_bi_stream and
\* accept_bi_stream calls are pairwise distinct and, after N of them, are exactly
\* 0..N-1, the counter being N: both calls draw from one counter that starts at 0
\* and grows by one per successful call.
C1_HandlesContiguous ==
    \A s \in Sides :
        /\ stream_id_counter[s] = Len(handles[s])
        /\ \A i, j \in DOMAIN handles[s] : i # j => handles[s][i] # handles[s][j]
        /\ Range(handles[s]) = 0..(Len(handles[s]) - 1)

\* Two tasks of the session have allocated, one by open and one by accept.
C1_Witness ==
    /\ Len(handles["A"]) >= 2
    /\ \E p, q \in SessionTasks :
          /\ ret[p].op = "open" /\ ret[p].st = "ok"
          /\ ret[q].op = "accept" /\ ret[q].st = "ok"
          /\ ret[p].h # ret[q].h

\* C2: round trip. When a receive that started at the beginning of a stream returns
\* bytes and the peer's send on the same transport stream returned success, the
\* bytes are exactly the payload of that send: same length, same order, whatever
\* the payload's length is relative to the chunk size and however the reads were
\* cut.
C2_RoundTrip ==
    \A p, q \in Procs :
        ( /\ SideOf(p) # SideOf(q)
          /\ ret[p].op = "receive" /\ ret[p].st = "ok" /\ ret[p].strm # 0
          /\ ret[p].start = 0
          /\ ret[q].op = "send" /\ ret[q].st = "ok"
          /\ ret[q].strm = ret[p].strm )
        => ret[p].val = ret[q].data

\* A payload of more than two chunks, not a multiple of the chunk size, has made
\* the round trip.
C2_Witness ==
    \E p, q \in Procs :
        /\ SideOf(p) # SideOf(q)
        /\ ret[p].op = "receive" /\ ret[p].st = "ok" /\ ret[p].start = 0
        /\ ret[q].op = "send" /\ ret[q].st = "ok"
        /\ ret[q].strm = ret[p].strm /\ ret[p].strm # 0
        /\ Len(ret[q].data) = 2 * chunk_size + 1
        /\ ret[p].val = ret[q].data

\* The step of task p (its locals change).
StepOf(p) == task'[p] # task[p]

\* C3: the sends of one session are serialized. At most one task of a session is
\* between the first transport step of a send and the end of its acknowledgment
\* wait; a step of that send touches no stream but its own, and what it adds to
\* its half is the next chunk of its own payload: with a single send in transfer
\* per session, the chunks of two payloads are never interleaved on a stream.
C3_SendsSerialized ==
    [][/\ \A s \in Sides :
             Cardinality({p \in Procs : SideOf(p) = s /\ task'[p].pc \in SendTransfer}) <= 1
       /\ \A p \in Procs :
             (task[p].pc \in SendTransfer /\ StepOf(p)) =>
                 LET s == SideOf(p)
                     t == task[p].strm
                 IN
                 /\ \A q \in Procs \ {p} : SideOf(q) = s => task[q].pc \notin SendTransfer
                 /\ \A u \in StreamIds \ {t} : streams'[u] = streams[u]
                 /\ \/ streams'[t].wire[s] = streams[t].wire[s]
                    \/ streams'[t].wire[s] =
                          streams[t].wire[s] \o
                              SubSeq(task[p].data, task[p].offset + 1, task'[p].offset)
      ]_svars

\* One task is in the acknowledgment wait of a send while another task has called
\* send on a second handle and has not got past the lock.
C3_Witness ==
    \E p, q \in SessionTasks :
        /\ p # q
        /\ task[p].pc = "send_stopped"
        /\ task[q].pc = "send_lock"
        /\ Cardinality(DOMAIN send_streams["A"]) >= 2

C5_UnknownHandle ==
    [][\A p \in Procs :
          LET s == SideOf(p) IN
          /\ (task[p].pc = "send_lock" /\ task'[p].pc # "send_lock") =>
                IF task'[p].pc = "idle"
                THEN /\ ret'[p].h \notin DOMAIN send_streams[s]
                     /\ ret'[p].op = "send" /\ ret'[p].st = "ok"
                     /\ UNCHANGED <<streams, send_streams, recv_streams,
                                    stream_id_counter, lock>>
                ELSE task'[p].h \in DOMAIN send_streams[s]
          /\ (task[p].pc = "recv_lock" /\ task'[p].pc # "recv_lock") =>
                IF task'[p].pc = "idle"
                THEN /\ ret'[p].h \notin DOMAIN recv_streams[s]
                     /\ ret'[p].op = "receive" /\ ret'[p].st = "ok"
                     /\ ret'[p].val = <<>>
                     /\ UNCHANGED <<streams, send_streams, recv_streams,
                                    stream_id_counter, lock>>
                ELSE task'[p].h \in DOMAIN recv_streams[s]
      ]_svars

\* A send and a receive on a handle in neither map have returned.
C5_Witness ==
    \E p, q \in SessionTasks :
        /\ ret[p].op = "send" /\ ret[p].st = "ok"
        /\ ret[p].h \notin DOMAIN send_streams["A"]
        /\ ret[q].op = "receive" /\ ret[q].st = "ok" /\ ret[q].val = <<>>
        /\ ret[q].h \notin DOMAIN recv_streams["A"]
        /\ stream_id_counter["A"] > 0

\* The call of p ends in this step with the error of the named transport step, and
\* the step does nothing to any transport stream.
Aborts(p, op, err) ==
    /\ task'[p].pc = "idle"
    /\ ret'[p].op = op /\ ret'[p].st = "err" /\ ret'[p].err = err
    /\ ret'[p].val = <<>>
    /\ streams' = streams

\* C6: a transport step that fails ends the call in that very step. A failed chunk
\* read makes receive return the error and none of the bytes read so far; a failed
\* chunk write, flush or finish makes send return the error, and the step writes
\* no chunk and does not finish the stream.
C6_FailureAborts ==
    [][\A p \in Procs :
          LET s == SideOf(p)
              t == task[p].strm
          IN
          /\ ( /\ task[p].pc = "recv_read" /\ StepOf(p)
               /\ ReadOutcome(s, t) = "err" ) => Aborts(p, "receive", "read_chunk")
          /\ ( /\ task[p].pc = "send_write" /\ StepOf(p)
               /\ WriteOutcome(s, t, 1) = "err" ) => Aborts(p, "send", "write_chunk")
          /\ ( /\ task[p].pc = "send_flush" /\ StepOf(p)
               /\ FlushOutcome(s, t) = "err" ) => Aborts(p, "send", "flush")
          /\ ( /\ task[p].pc = "send_finish" /\ StepOf(p)
               /\ FinishOutcome(s, t) = "err" ) => Aborts(p, "send", "finish")
      ]_svars

\* A receive has failed after it had read bytes, and a send has failed at a chunk
\* write after it had written a chunk.
C6_Witness ==
    \E p, q \in SessionTasks :
        /\ ret[p].op = "receive" /\ ret[p].st = "err"
        /\ streams[ret[p].strm].rd[Peer("A")] > ret[p].start
        /\ ret[q].op = "send" /\ ret[q].st = "err" /\ ret[q].err = "write_chunk"
        /\ streams[ret[q].strm].rd["A"] + Len(streams[ret[q].strm].wire["A"]) > 0
        /\ ~streams[ret[q].strm].fin["A"]

(* ------------------------- claims: QuicSocket -------------------------- *)

\* The step ends a facade call of task p (a call that fails before its first await
\* starts and ends in one step).
FReturns(p) ==
    /\ ftask'[p].pc = "idle"
    /\ ftask[p].pc # "idle" \/ fcalls'[p] # fcalls[p]

\* The sessions the table maps an address to.
Registered(m) == {m[a] : a \in DOMAIN m}

\* C7: a connect or accept that returns a session leaves the table mapping the
\* session's peer address (server_addr for connect, the remote address for accept)
\* to exactly that session, and every other entry as it was; when the address was
\* present its entry is replaced, close is not called on the replaced session, which
\* keeps its state when the caller holds a reference to it, and which the table no
\* longer reaches; a connect that fails leaves the table as it was and makes no
\* session.
C7_RegistersSession ==
    [][\A p \in FTasks :
          /\ ( /\ FReturns(p)
               /\ fret'[p].op \in {"connect", "accept"}
               /\ fret'[p].st \in {"ok", "some"} ) =>
                  LET a == fret'[p].addr
                      c == fret'[p].sess
                  IN
                  /\ c \in DOMAIN sessions /\ sessions[c].addr = a
                  /\ a \in Addrs
                  /\ DOMAIN connections' = DOMAIN connections \cup {a}
                  /\ connections'[a] = c
                  /\ \A b \in DOMAIN connections \ {a} : connections'[b] = connections[b]
                  /\ \A d \in DOMAIN sessions :
                        /\ sessions'[d].state = "closed" => sessions[d].state = "closed"
                        /\ (d \in Registered(connections') \/ sessions[d].held) =>
                              sessions'[d] = sessions[d]
                  /\ (a \in DOMAIN connections /\ connections[a] # c) =>
                        connections[a] \notin Registered(connections')
          /\ ( /\ FReturns(p)
               /\ fret'[p].op = "connect"
               /\ fret'[p].st = "err" ) =>
                  /\ connections' = connections
                  /\ sessions' = sessions
      ]_vars

\* A second connect to an address has returned: the table maps the address to the
\* session it returned, and the session of the first connect, which the caller still
\* holds, is open and not in the table.
C7_Witness ==
    \E p \in FTasks, d \in DOMAIN sessions :
        /\ fret[p].op = "connect" /\ fret[p].st = "ok"
        /\ fret[p].addr \in DOMAIN connections
        /\ connections[fret[p].addr] = fret[p].sess
        /\ d # fret[p].sess
        /\ sessions[d].addr = fret[p].addr
        /\ sessions[d].state = "open" /\ sessions[d].held
        /\ d \notin Registered(connections)

\* The step of facade task p (its locals change).
FStepOf(p) == ftask'[p] # ftask[p]

\* C8: when the handshake of the attempt accept popped fails, accept returns none
\* in that step, the value it returns for a closed queue; the attempt is gone (it is
\* in the queue no more, nor back with the loop or the endpoint), no session is
\* made, the table is as it was. A handshake that succeeds goes on to the insert.
C8_FailedHandshakeIsNone ==
    [][\A p \in FTasks :
          (ftask[p].pc = "accept_handshake" /\ FStepOf(p)) =>
              IF sessions' = sessions
              THEN /\ ftask'[p].pc = "idle"
                   /\ fret'[p] = FRet("accept", "none", 0, NoAddr)
                   /\ connections' = connections
                   /\ queue' = queue /\ pending' = pending /\ accept_loop' = accept_loop
                   /\ \A i \in DOMAIN queue' : queue'[i].id # ftask[p].item.id
              ELSE /\ ftask'[p].pc = "accept_insert"
                   /\ Len(sessions') = Len(sessions) + 1
      ]_vars

\* An accept has returned none although the producer runs and the endpoint is open:
\* it popped the one attempt that arrived, whose handshake failed.
C8_Witness ==
    \E p \in FTasks :
        /\ fret[p].op = "accept" /\ fret[p].st = "none"
        /\ ftask[p].pc = "idle"
        /\ endpoint = "open" /\ accept_loop.pc = "accept" /\ rx = "open"
        /\ arrived = 1 /\ pending = <<>> /\ queue = <<>>
        /\ sessions = <<>> /\ connections = EmptyMap

\* An accept that waits for the queue, or for the handshake of an attempt it
\* popped, when the producer has ended.
AcceptAfterEnd(p) ==
    /\ accept_loop.pc = "done"
    /\ ftask[p].pc \in {"accept_recv", "accept_handshake"}

\* C9: once the producer has ended, an accept on the empty queue returns none at
\* its first step, an accept returns nothing but none, and no accept blocks
\* forever: it comes to return none.
C9_ClosedQueueReturnsNone ==
    /\ [][\A p \in FTasks :
             (AcceptAfterEnd(p) /\ FStepOf(p)) =>
                 /\ \/ /\ ftask'[p].pc = "idle"
                       /\ fret'[p] = FRet("accept", "none", 0, NoAddr)
                    \/ /\ ftask[p].pc = "accept_recv" /\ queue # <<>>
                       /\ ftask'[p].pc = "accept_handshake"
                 /\ (ftask[p].pc = "accept_recv" /\ queue = <<>>) => ftask'[p].pc = "idle"
        ]_vars
    /\ \A p \in FTasks :
          AcceptAfterEnd(p) ~>
              (ftask[p].pc = "idle" /\ fret[p] = FRet("accept", "none", 0, NoAddr))

\* An accept called after the producer ended has returned none from the empty queue.
C9_Witness ==
    \E p \in FTasks :
        /\ accept_loop.pc = "done"
        /\ fret[p].op = "accept" /\ fret[p].st = "none"
        /\ ftask[p].pc = "idle"
        /\ arrived = 0

\* The attempts between the endpoint and the consumer, oldest first: in the queue,
\* in the hand of the loop, buffered by the endpoint.
InFlight ==
    queue \o (IF accept_loop.pc = "send" THEN <<accept_loop.item>> ELSE <<>>) \o pending

\* The step is one of the accept loop.
LoopStep == accept_loop' # accept_loop

\* The accept loop and the queue, whatever the state of the consumer's end: the
\* queue never holds more than 100; the loop takes the attempts from the endpoint
\* oldest first, one at a time; when the queue holds 100 and the consumer's end is
\* open the loop waits and takes no attempt.
LoopAndQueue ==
    /\ [](Len(queue) <= channel_capacity)
    /\ [][(LoopStep /\ accept_loop.pc = "accept" /\ accept_loop'.pc = "send") =>
              /\ pending # <<>>
              /\ accept_loop'.item = Head(pending)
              /\ pending' = Tail(pending)
              /\ queue' = queue]_vars
    /\ [][(accept_loop.pc = "send" /\ Len(queue) = channel_capacity /\ rx = "open") =>
              /\ ~LoopStep
              /\ Len(pending') >= Len(pending)
              /\ \A i \in DOMAIN pending : pending'[i] = pending[i]]_vars

\* C10 as stated: every attempt the loop has taken from the endpoint goes into the
\* queue, at its tail, when the loop goes on.
C10_ForwardsEveryAttempt ==
    /\ LoopAndQueue
    /\ [][(LoopStep /\ accept_loop.pc = "send") =>
              queue' = Append(queue, accept_loop.item)]_vars

\* C10, amended: as long as the consumer's end of the queue is open, every attempt
\* the loop has taken goes into the queue, at its tail, exactly once and in arrival
\* order (what is in flight is the last attempts that arrived, oldest first, none
\* missing, none twice; the queue loses an attempt only at its head, to an accept);
\* the queue never holds more than 100, and when it holds 100 the loop waits and
\* takes no attempt. Once the consumer's end is dropped the loop discards the
\* attempt it holds and goes on taking attempts.
C10_ForwardsWhileReceiverOpen ==
    /\ LoopAndQueue
    /\ [](rx = "open" =>
             \A i \in DOMAIN InFlight : InFlight[i].id = arrived - Len(InFlight) + i)
    /\ [][(LoopStep /\ accept_loop.pc = "send") =>
              /\ accept_loop'.pc = "accept"
              /\ IF rx = "open"
                 THEN /\ Len(queue) < channel_capacity
                      /\ queue' = Append(queue, accept_loop.item)
                 ELSE queue' = queue]_vars
    /\ [][(queue' # queue /\ ~LoopStep /\ rx' = "open") =>
              /\ queue' = Tail(queue)
              /\ \E p \in FTasks : ftask'[p].item = Head(queue)]_vars

\* The queue holds 100 attempts, the loop waits with the next one and the endpoint
\* buffers one more; the consumer has popped an attempt before, so the loop has
\* waited and gone on at least once.
C10_Witness ==
    /\ rx = "open"
    /\ Len(queue) = channel_capacity
    /\ accept_loop.pc = "send"
    /\ pending # <<>>
    /\ queue[1].id > 1

\* C11: close_connection(addr). When the table has an entry for addr, the call
\* removes that entry and closes its session; when it has none, the call closes no
\* session and leaves the table as it was. In both cases every entry for another
\* address stays, mapped to the same session, and no other session changes.
C11_CloseConnectionFrame ==
    [][\A p \in FTasks :
          ( /\ FReturns(p)
            /\ fret'[p].op = "close_connection" ) =>
              LET a == fret'[p].addr IN
              /\ IF a \in DOMAIN connections
                 THEN /\ DOMAIN connections' = DOMAIN connections \ {a}
                      /\ sessions'[connections[a]].state = "closed"
                      /\ \A d \in DOMAIN sessions \ {connections[a]} :
                            sessions'[d] = sessions[d]
                 ELSE /\ connections' = connections
                      /\ sessions' = sessions
              /\ \A b \in DOMAIN connections \ {a} :
                    /\ b \in DOMAIN connections'
                    /\ connections'[b] = connections[b]
                    /\ sessions'[connections[b]] = sessions[connections[b]]
      ]_vars

\* close_connection has returned for an address: the address is out of the table
\* and its session is closed, while the other address is still in the table with
\* its session open.
C11_Witness ==
    \E p \in FTasks : \E b \in Addrs :
        /\ fret[p].op = "close_connection"
        /\ fret[p].addr \in Addrs \ {b}
        /\ fret[p].addr \notin DOMAIN connections
        /\ \E c \in DOMAIN sessions :
              sessions[c].addr = fret[p].addr /\ sessions[c].state = "closed"
        /\ b \in DOMAIN connections
        /\ sessions[connections[b]].state = "open"

\* C12: close_all closes every session that is in the table when it runs and
\* leaves the table empty, as one step with respect to the table: from its first
\* close to its clear no registration of a connect or an accept and no removal of a
\* close_connection takes effect, the table changing only by the clear; so when
\* close_all returns the table is empty, every session it held is closed and no
\* session of the table was left out.
C12_CloseAllAtomic ==
    /\ [][\A p \in FTasks :
             ftask[p].pc = "closeall_close" =>
                 \/ connections' = connections
                 \/ /\ FReturns(p)
                    /\ connections' = EmptyMap]_vars
    /\ [][\A p \in FTasks :
             ( /\ FReturns(p)
               /\ fret'[p].op = "close_all" ) =>
                 /\ connections' = EmptyMap
                 /\ \A c \in Registered(connections) : sessions'[c].state = "closed"]_vars
    /\ [](\A p \in FTasks :
             ftask[p].pc = "closeall_close" =>
                 \A c \in Registered(connections) \ ftask[p].rest :
                     sessions[c].state = "closed")

\* close_all has returned after closing the sessions of two addresses, while the
\* other task, whose connect finished its handshake in the meantime, still waits to
\* register its session.
C12_Witness ==
    \E p, q \in FTasks :
        /\ fret[p].op = "close_all"
        /\ ftask[p].pc = "idle"
        /\ connections = EmptyMap
        /\ \A a \in Addrs : \E c \in DOMAIN sessions :
              sessions[c].addr = a /\ sessions[c].state = "closed"
        /\ ftask[q].pc = "connect_insert"

\* The chain and the key a successful construction ended with.
PairOf(b) ==
    IF b.op = "load_or_generate_cert" THEN b.val
    ELSE [chain |-> b.val.chain, key |-> b.val.key]

\* C13: load_or_generate_cert(cert_path?, key_path?), alone and inside new_server.
\* With both paths present the certificate file is read first and the key file
\* only after the certificates loaded; the result is the chain of the certificate
\* path and the key of the key path, or an error, and a load failure is the result
\* of the call, never a generated pair. With a path absent (one or both) no file
\* is read and the pair is the one generated for "localhost". When new_server
\* fails, on a load error as on any other, there is no endpoint, no queue and no
\* background task.
C13_LoadOrGenerate ==
    built.op \in {"load_or_generate_cert", "new_server"} =>
        LET cp == built.cert_path
            kp == built.key_path
        IN
        /\ IF cp # NoPath /\ kp # NoPath
           THEN /\ reads \in {<<cp.file>>, <<cp.file, kp.file>>}
                /\ reads = <<cp.file>> <=> load_certs(fs, cp).st = "err"
                /\ load_certs(fs, cp).st = "err" =>
                      built.st = "err" /\ built.err = load_certs(fs, cp).err
                /\ (load_certs(fs, cp).st = "ok" /\ load_key(fs, kp).st = "err") =>
                      built.st = "err" /\ built.err = load_key(fs, kp).err
                /\ built.st = "ok" =>
                      /\ PairOf(built).chain = load_certs(fs, cp).val
                      /\ \A i \in DOMAIN PairOf(built).chain :
                            PairOf(built).chain[i].file = cp.file
                      /\ PairOf(built).key = load_key(fs, kp).val
                      /\ PairOf(built).key.file = kp.file
           ELSE /\ reads = <<>>
                /\ built.op = "load_or_generate_cert" => built.st = "ok"
                /\ built.st = "err" => built.err = "bind"
                /\ built.st = "ok" =>
                      PairOf(built) = [chain |-> <<GeneratedCert>>, key |-> GeneratedKey]
        /\ (built.op = "new_server" /\ built.st = "err") =>
              /\ kind = "none" /\ endpoint = "none"
              /\ rx = "none" /\ queue = <<>>
              /\ accept_loop.pc = "none"
        /\ (built.op = "new_server" /\ built.st = "ok") =>
              /\ kind = "server" /\ endpoint = "open"
              /\ rx = "open" /\ accept_loop.pc = "accept"

\* new_server was called with both paths, the certificates loaded and the key file
\* held no key: the call failed with the key loader's error after reading both
\* files, and left no endpoint, queue or task.
C13_Witness ==
    /\ built.op = "new_server"
    /\ built.cert_path # NoPath /\ built.key_path # NoPath
    /\ built.st = "err"
    /\ built.err = "no private keys found"
    /\ reads = <<built.cert_path.file, built.key_path.file>>
    /\ kind = "none" /\ rx = "none" /\ accept_loop.pc = "none"

\* C14: load_certs selects the parser by the extension. For a path with the
\* extension der a readable file is returned whole as a single certificate, its
\* content never parsed as PEM; for any other extension the content is parsed as a
\* sequence of PEM certificates, a success returns the certificate blocks of the
\* file, and a file with no valid certificate block makes the call fail: it never
\* succeeds with an empty chain.
C14_CertParserByExtension ==
    (built.op = "load_certs" /\ fs[built.cert_path.file].readable) =>
        LET f == built.cert_path.file
            blocks == Select(fs[f].sections, "cert", 1)
        IN
        IF built.cert_path.ext = "der"
        THEN built.st = "ok" /\ built.val = <<Block(f, 0)>>
        ELSE /\ built.st = "ok" =>
                   /\ built.val = [j \in DOMAIN blocks |-> Block(f, blocks[j])]
                   /\ built.val # <<>>
             /\ blocks = <<>> => built.st = "err"

\* The five constructions of an endpoint.
Constructors ==
    {"new_client", "new_native_client", "new_insecure_client", "new_server",
     "new_self_signed_server"}

\* C15: every transport configuration built by the five constructions (the client
\* with pinned certificates, the client with the native trust store, the insecure
\* client, the server with a certificate, the self-signed server) advertises the
\* same single fixed application protocol identifier in the handshake.
C15_SingleAlpn ==
    (built.op \in Constructors /\ built.st = "ok") =>
        built.val.alpn_protocols = ALPN_QUIC_HTTP

\* C16: the verifier of the insecure client accepts any server certificate
\* unconditionally and any signature as valid: no handshake of an insecure client
\* is rejected by the verifier, on certificate or on signature grounds.
C16_NeverRejected ==
    hs.pc = "done" => hs.result = "accepted"

\* C16, as the verifier behaves: it accepts any server certificate
\* unconditionally, whether or not the certificate chains to a trusted root, names
\* the server or is in its validity period, so no handshake is rejected on
\* certificate grounds; the signature over the handshake is still verified, for
\* TLS 1.2 and 1.3 alike, with the provider's algorithms: the handshake is accepted
\* exactly when the scheme is one the provider supports and the signature verifies
\* under the key of the presented certificate, and is rejected otherwise; the
\* schemes the verifier offers are the provider's.
C16_AcceptsAnyCertificate ==
    /\ hs.pc \in {"signature", "done"} => hs.cert_verdict = "ok"
    /\ hs.pc = "done" =>
          /\ hs.result \in {"accepted", "rejected_signature"}
          /\ hs.result = "accepted" <=>
                /\ hs.dss.scheme \in supported_verify_schemes
                /\ hs.dss.key = hs.cert.key
                /\ hs.dss.msg_ok

\* A handshake was accepted although the certificate chains to no trusted root,
\* does not name the server and is outside its validity period.
C16_Witness ==
    /\ hs.pc = "done"
    /\ hs.result = "accepted"
    /\ ~hs.cert.trusted /\ ~hs.cert.name_ok /\ ~hs.cert.valid_now

\* C17: two connected sessions over a live transport, on each side one task that
\* opens a stream and sends on it and one task that accepts the peer's stream and
\* receives from it: all four transfers return in every interleaving, that is, no
\* state is reachable in which each side's send waits for the peer to read while
\* each side's accept_bi_stream waits for its own side's send to finish.
C17_NoSendAcceptDeadlock ==
    ~ \A s \in Sides :
         /\ conn[s] = "open"
         /\ task[Opener(s)].pc = "send_write"
         /\ WriteOutcome(s, task[Opener(s)].strm,
                         ChunkEnd(task[Opener(s)].offset, Len(task[Opener(s)].data))
                             - task[Opener(s)].offset) = "wait"
         /\ task[Acceptor(s)].pc = "accept_send_lock"
         /\ lock[s].send = Opener(s)

\* The pcs in which a task is inside the transfer of receive.
ReceiveTransfer == {"recv_read"}

\* C18: stream allocation is brief and low-contention. open_bi_stream and
\* accept_bi_stream hold the send map, the receive map and the counter only for
\* the increment and the two insertions, and an allocation whose transport stream
\* is ready never has to wait for a send or receive transfer of the same session
\* to finish: the lock it waits for is never held by a task inside a transfer,
\* and it waits for no lock while it holds another.
C18_AllocationLowContention ==
    \A p \in Procs :
        LET s == SideOf(p) IN
        /\ task[p].pc \in {"open_send_lock", "accept_send_lock"} =>
              \/ lock[s].send = NoOwner
              \/ task[lock[s].send].pc \notin SendTransfer
        /\ task[p].pc \in {"open_recv_lock", "accept_recv_lock"} =>
              \/ lock[s].recv = NoOwner
              \/ task[lock[s].recv].pc \notin ReceiveTransfer

\* C19: for a known handle and a payload of length L, send takes its transport
\* steps in a fixed order. The writes start at offset 0 and each successful write
\* puts the next chunk on the stream and advances the offset by its length: 1024
\* bytes, or the 1 to 1024 bytes that remain for the last one; so the writes are at
\* the offsets 0, 1024, 2048, ... below L, ceil(L/1024) of them, and none when
\* L = 0. After the last chunk comes the flush, then the finish, then the wait for
\* the peer's acknowledgment, and send returns success for the handle only from
\* that wait.
C19_SendStepOrder ==
    /\ [](\A p \in Procs :
             /\ task[p].pc = "send_write" =>
                   /\ task[p].offset < Len(task[p].data)
                   /\ task[p].offset % chunk_size = 0
             /\ task[p].pc \in {"send_flush", "send_finish", "send_stopped"} =>
                   task[p].offset = Len(task[p].data)
             /\ task[p].pc = "send_stopped" => streams[task[p].strm].fin[SideOf(p)])
    /\ [][\A p \in Procs :
             LET s == SideOf(p)
                 t == task'[p].strm
                 L == Len(task'[p].data)
             IN
             /\ (task[p].pc = "send_lock" /\ task'[p].pc # "send_lock"
                     /\ task'[p].pc # "idle") =>
                   /\ task'[p].offset = 0
                   /\ task'[p].pc = IF L = 0 THEN "send_flush" ELSE "send_write"
                   /\ streams' = streams
             /\ (task[p].pc = "send_write" /\ StepOf(p) /\ task'[p].pc # "idle") =>
                   LET n == task'[p].offset - task[p].offset IN
                   /\ task'[p].data = task[p].data
                   /\ n >= 1 /\ n <= chunk_size
                   /\ n = chunk_size \/ task'[p].offset = L
                   /\ streams'[t].wire[s] =
                         streams[t].wire[s] \o SubSeq(task[p].data, task[p].offset + 1,
                                                      task[p].offset + n)
                   /\ task'[p].pc = IF task'[p].offset < L THEN "send_write"
                                    ELSE "send_flush"
             /\ (task[p].pc = "send_flush" /\ StepOf(p) /\ task'[p].pc # "idle") =>
                   /\ task'[p].pc = "send_finish"
                   /\ streams' = streams
             /\ (task[p].pc = "send_finish" /\ StepOf(p) /\ task'[p].pc # "idle") =>
                   /\ task'[p].pc = "send_stopped"
                   /\ ~streams[t].fin[s] /\ streams'[t].fin[s]
                   /\ streams'[t].wire = streams[t].wire
             /\ (task[p].pc = "send_stopped" /\ StepOf(p)) =>
                   /\ task'[p].pc = "idle"
                   /\ streams' = streams
             /\ (StepOf(p) /\ task'[p].pc = "idle" /\ ret'[p].op = "send"
                     /\ ret'[p].st = "ok" /\ ret'[p].strm # 0) =>
                   task[p].pc = "send_stopped"
      ]_svars

\* A send of a payload of two full chunks and one byte has returned success: three
\* writes, the flush, the finish and the wait are behind it.
C19_Witness ==
    \E p \in Procs :
        /\ ret[p].op = "send" /\ ret[p].st = "ok" /\ ret[p].strm # 0
        /\ task[p].pc = "idle"
        /\ Len(ret[p].data) = 2 * chunk_size + 1
        /\ streams[ret[p].strm].fin[SideOf(p)]

\* C20: the send map and the receive map have the same keys, the handles
\* 0 .. counter-1, in every state outside the critical section of an allocation
\* (which is one step: nothing can look at the maps inside it). No operation
\* removes a key or changes what a handle is mapped to: a handle stays in both
\* maps after its send half is finished, after its receive half is read to the
\* end, after a failed transfer and after close; close changes neither map nor the
\* counter.
C20_KeySetsAgree ==
    /\ [](\A s \in Sides :
             /\ DOMAIN send_streams[s] = 0..(stream_id_counter[s] - 1)
             /\ DOMAIN recv_streams[s] = 0..(stream_id_counter[s] - 1))
    /\ [][\A s \in Sides :
             /\ stream_id_counter'[s] >= stream_id_counter[s]
             /\ \A h \in DOMAIN send_streams[s] :
                   /\ h \in DOMAIN send_streams'[s]
                   /\ send_streams'[s][h] = send_streams[s][h]
             /\ \A h \in DOMAIN recv_streams[s] :
                   /\ h \in DOMAIN recv_streams'[s]
                   /\ recv_streams'[s][h] = recv_streams[s][h]]_svars
    /\ [][\A p \in Procs :
             (ncalls'[p] # ncalls[p] /\ ret'[p].op = "close") =>
                 /\ send_streams' = send_streams
                 /\ recv_streams' = recv_streams
                 /\ stream_id_counter' = stream_id_counter]_svars

\* close has been called on a session with two handles; on one of them a send has
\* finished its half and returned: both handles are still in both maps.
C20_Witness ==
    \E p, q \in SessionTasks :
        /\ ret[q].op = "close"
        /\ conn["A"] = "closed"
        /\ ret[p].op = "send" /\ ret[p].st = "ok" /\ ret[p].strm # 0
        /\ streams[ret[p].strm].fin["A"]
        /\ stream_id_counter["A"] = 2
        /\ ret[p].h \in DOMAIN send_streams["A"] \cap DOMAIN recv_streams["A"]

\* C21: the receives of one session are serialized. A receive holds the lock of
\* the receive map from its lookup until it returns, at the end of the data or on
\* an error; so at most one receive of a session is reading chunks, its reads
\* touch no stream but its own, and while it is reading a second receive, whatever
\* its handle (one that is in the map or not), takes no step: it reads no chunk
\* and does not return before the first has returned.
C21_ReceivesSerialized ==
    /\ [](\A s \in Sides :
             /\ Cardinality({p \in Procs : SideOf(p) = s /\ task[p].pc \in ReceiveTransfer}) <= 1
             /\ \A p \in Procs :
                   (SideOf(p) = s /\ task[p].pc \in ReceiveTransfer) => lock[s].recv = p)
    /\ [][\A p \in Procs :
             LET s == SideOf(p) IN
             /\ (task[p].pc = "recv_lock" /\ StepOf(p)) =>
                   \A q \in Procs \ {p} :
                       SideOf(q) = s => task[q].pc \notin ReceiveTransfer
             /\ (task[p].pc \in ReceiveTransfer /\ StepOf(p)) =>
                   /\ \A u \in StreamIds \ {task[p].strm} : streams'[u] = streams[u]
                   /\ \A q \in Procs \ {p} :
                         SideOf(q) = s =>
                             /\ task[q].pc \notin ReceiveTransfer
                             /\ task'[q] = task[q] /\ ret'[q] = ret[q]
                   /\ lock'[s].recv = IF task'[p].pc = "idle" THEN NoOwner ELSE p
      ]_svars

\* One receive has read part of its stream and is still in its loop, while a
\* second receive of the session has been called and waits.
C21_Witness ==
    \E p, q \in SessionTasks :
        /\ p # q
        /\ task[p].pc = "recv_read"
        /\ task[p].buffer # <<>>
        /\ task[q].pc = "recv_lock"
        /\ lock["A"].recv = p

\* C22: the lifetime of the background accept task. A client facade has no such
\* task. On a server facade the task runs and forwards as long as the endpoint is
\* open: it ends only when the endpoint's accept yields nothing more, which
\* happens once the endpoint is closed or dropped; close_connection and close_all
\* do not stop it. Dropping the facade that owns the endpoint drops the endpoint,
\* which ends the task: once the facade is dropped the endpoint is no longer open
\* and takes no further attempt.
C22_LoopEndsWithEndpoint ==
    /\ [](kind = "client" => accept_loop.pc = "none")
    /\ [](accept_loop.pc = "done" => endpoint # "open")
    /\ [][accept_loop'.pc = "done" /\ accept_loop.pc # "done" =>
              endpoint # "open" /\ pending = <<>>]_vars
    /\ [][\A p \in FTasks : FStepOf(p) => accept_loop' = accept_loop]_vars
    /\ [](facade = "dropped" => endpoint # "open")
    /\ [][facade = "dropped" => arrived' = arrived]_vars

\* The pcs at which a facade call is about to take the lock of the table.
TableLockPcs == {"connect_insert", "accept_insert", "closeconn_lock", "closeall_lock"}

\* The step with which facade task p takes the lock of the table.
TableLockStep(p) ==
    \/ SocketConnectInsert(p)
    \/ SocketAcceptInsert(p)
    \/ \E a \in Addrs : SocketCloseConnectionRemove(p, a)
    \/ SocketCloseAllLock(p)

\* C23: the lock of the facade's table is never held across a transfer or a
\* handshake. Between steps the lock is held only by a task inside close_all's
\* loop, so never by a task awaiting the handshake of connect or accept, which take
\* it only in the step of the insert; no step of the facade's send or receive
\* takes, releases or waits for it, or touches the table; and a connect, accept,
\* close_connection or close_all that has come to its lock().await goes on
\* whenever no other facade call holds the table's lock, whatever send or receive
\* is in progress.
C23_TableLockNotAcrossTransfer ==
    /\ [](connections_lock # FNoOwner =>
             /\ connections_lock \in FTasks
             /\ ftask[connections_lock].pc = "closeall_close")
    /\ [][StepOf(TransferTask) =>
             connections_lock' = connections_lock /\ connections' = connections]_vars
    /\ [](\A p \in FTasks :
             ftask[p].pc \in TableLockPcs /\ connections_lock = FNoOwner =>
                ENABLED TableLockStep(p))

\* A send in its transfer, holding the send map's lock, with one facade task
\* between the handshake of its connect and the insert and the other inside
\* close_all with the table's lock.
C23_Witness ==
    /\ task[TransferTask].pc = "send_write"
    /\ task[TransferTask].offset > 0
    /\ lock["A"].send = TransferTask
    /\ \E p, q \in FTasks :
          /\ ftask[p].pc = "connect_insert"
          /\ ftask[q].pc = "closeall_close"
          /\ connections_lock = q

\* The locks of session A that task p holds.
HeldBy(p) == {l \in {"send", "recv", "ctr"} : lock["A"][l] = p}

\* The pcs of the four operations.
AllocPcs ==
    {"open_send_lock", "open_recv_lock", "open_insert",
     "accept_bi", "accept_send_lock", "accept_recv_lock", "accept_insert"}
SendPcs == {"send_lock"} \cup SendTransfer
ReceivePcs == {"recv_lock"} \cup ReceiveTransfer

\* The pcs at which a task is in a transport call: the call is the transport's to
\* end, the others are a lock().await.
TransportPcs == {"accept_bi"} \cup SendTransfer \cup ReceiveTransfer

\* C24: within one session there is no deadlock on the locks. A send holds no lock
\* but the send map's, a receive none but the receive map's, and an allocation
\* holds the receive map's lock only with the send map's and never keeps the
\* counter's between steps: the locks are taken in one order. Whenever a task is
\* inside a call and cannot step, it is in a transport call or some other task is
\* in one or can step; and with a transport whose calls return, every call
\* returns.
C24_NoLockCycle ==
    /\ [](\A p \in SessionTasks :
             /\ task[p].pc \in SendPcs => HeldBy(p) \subseteq {"send"}
             /\ task[p].pc \in ReceivePcs => HeldBy(p) \subseteq {"recv"}
             /\ task[p].pc \in AllocPcs =>
                   HeldBy(p) \in {{}, {"send"}, {"send", "recv"}}
             /\ task[p].pc = "idle" => HeldBy(p) = {})
    /\ [](\A p \in SessionTasks :
             task[p].pc \notin {"idle"} \cup TransportPcs /\ ~ENABLED TaskStep(p) =>
                \E q \in SessionTasks \ {p} :
                    task[q].pc \in TransportPcs \/ ENABLED TaskStep(q))
    /\ \A p \in SessionTasks : task[p].pc # "idle" ~> task[p].pc = "idle"

\* An open_bi_stream that holds the send map's lock and waits for the receive
\* map's, held by a receive in its transfer, while the transport is up.
C24_Witness ==
    \E p, q \in SessionTasks :
        /\ task[p].pc = "open_recv_lock"
        /\ lock["A"].send = p
        /\ task[q].pc = "recv_read"
        /\ lock["A"].recv = q
        /\ conn["A"] = "open"

\* The step with which task p returns from op with an error: a step of the call,
\* or the call itself when it fails before its first await is over.
FailsIn(p, op) ==
    /\ StepOf(p) \/ ncalls'[p] # ncalls[p]
    /\ task'[p].pc = "idle"
    /\ ret'[p].op = op
    /\ ret'[p].st = "err"

\* C25: every exit of send and receive releases the lock of the map it took, the
\* error exits included. The task that returns from a send or a receive holds no
\* lock afterwards, so a lock that is held is held by a task inside a call that
\* took it; a later send, receive or allocation that waits for a lock that is free
\* takes it. An open_bi_stream or accept_bi_stream that the transport refuses
\* returns its error holding no lock, and leaves the locks, the counter, the two
\* maps and the handles given out as they were.
C25_ErrorExitsReleaseLocks ==
    /\ [][\A p \in SessionTasks :
             task[p].pc \in SendPcs \cup ReceivePcs /\ task'[p].pc = "idle" =>
                lock'["A"].send # p /\ lock'["A"].recv # p]_vars
    /\ [](/\ lock["A"].send # NoOwner =>
                task[lock["A"].send].pc \in SendTransfer \cup AllocHasSend
          /\ lock["A"].recv # NoOwner =>
                task[lock["A"].recv].pc \in ReceiveTransfer \cup AllocHasRecv
          /\ lock["A"].ctr = NoOwner)
    /\ [](\A p \in SessionTasks :
             /\ task[p].pc = "send_lock" /\ Free("A", "send") =>
                   ENABLED (\E h \in HandleArgs, data \in SmallPayloads : SendLookup(p, h, data))
             /\ task[p].pc = "recv_lock" /\ Free("A", "recv") =>
                   ENABLED (\E h \in HandleArgs : ReceiveLookup(p, h))
             /\ task[p].pc = "open_send_lock" /\ Free("A", "send") => ENABLED OpenLockSend(p)
             /\ task[p].pc = "accept_send_lock" /\ Free("A", "send") =>
                   ENABLED AcceptLockSend(p))
    /\ [][\A p \in SessionTasks :
             FailsIn(p, "open") \/ FailsIn(p, "accept") =>
                /\ HeldBy(p) = {}
                /\ lock' = lock
                /\ stream_id_counter' = stream_id_counter
                /\ send_streams' = send_streams
                /\ recv_streams' = recv_streams
                /\ handles' = handles]_vars

\* A send that failed at a transport step has returned, and another task's send on
\* the same session holds the send map's lock in its transfer.
C25_Witness ==
    \E p, q \in SessionTasks :
        /\ p # q
        /\ ret[p].op = "send"
        /\ ret[p].st = "err"
        /\ ret[p].err \in {"write_chunk", "flush", "finish"}
        /\ task[p].pc = "idle"
        /\ task[q].pc \in SendTransfer
        /\ lock["A"].send = q

\* C26: the outcome of send's final acknowledgment wait does not affect its
\* result. The step that ends the wait returns success from send and drops the
\* guard, whether the wait ended with the peer's acknowledgment or stop or with an
\* error because the connection was gone; and it is the only step by which a send
\* that entered its transfer returns success: every chunk has been written and the
\* half is finished by then.
C26_StoppedOutcomeIgnored ==
    [][\A p \in SessionTasks :
          /\ task[p].pc = "send_stopped" /\ StepOf(p) =>
                /\ StoppedOutcome("A", task[p].strm) \in {"ok", "err"}
                /\ task'[p].pc = "idle"
                /\ ret'[p] = RetOk("send", task[p].h, <<>>, task[p].data, task[p].strm, 0)
                /\ lock'["A"].send = NoOwner
          /\ task[p].pc \in SendTransfer /\ task'[p].pc = "idle" /\ ret'[p].st = "ok" =>
                /\ task[p].pc = "send_stopped"
                /\ task[p].offset = Len(task[p].data)
                /\ streams[task[p].strm].fin["A"]]_vars

\* A send of a payload, all written and finished, is at its acknowledgment wait
\* when the connection is gone: the wait ends with an error and the step returns
\* success.
C26_Witness ==
    \E p \in SessionTasks :
        /\ task[p].pc = "send_stopped"
        /\ Len(task[p].data) > 0
        /\ StoppedOutcome("A", task[p].strm) = "err"
        /\ ENABLED (SendStopped(p) /\ ret'[p].st = "ok")

====
